---------------------------- MODULE Spec2Model ----------------------------
(***************************************************************************)
(* Promptitude: repository mirror, workspace-name resolution, activation   *)
(* projection (symlink / copy), catalog and sync pass.                     *)
(*                                                                         *)
(* Text is modelled as a sequence of tokens.  A file name such as          *)
(* x.prompt.md is <<"x", ".", "prompt", ".", "md">>, a repository URL such *)
(* as https://github.com/a-b/c is                                          *)
(* <<"https://", "github.com", "/", "a", "-", "b", "/", "c">>.  Every      *)
(* string function of the source (split, lastIndexOf, replace, ...) is     *)
(* computed on these sequences the way the source computes it on           *)
(* characters.                                                             *)
(***************************************************************************)
EXTENDS Integers, Sequences, FiniteSets, TLC

VARIABLES
    repositoryConfigs,  \* ConfigManager.repositoryConfigs: Seq of [url, branch]
    platform,           \* process.platform: "linux" or "win32"
    symlinkPermitted,   \* whether fs.symlink succeeds (FALSE: EPERM)
    remote,             \* provider side: [url, branch] -> tree of entries
    mirror,             \* <repoStorageDir>/<slug(url)>/<file> -> content (0: absent)
    promptsDir,         \* activation directory: name -> entry
    prompts,            \* PromptTreeDataProvider.prompts (all categories, in load order)
    activePrompts,      \* PromptTreeDataProvider.activePrompts (set of paths)
    isLoading,          \* PromptTreeDataProvider.isLoading
    pass,               \* the sync passes (invocations of syncNow) and their position
    timers,             \* the pending setTimeout callbacks that call syncNow
    lost,               \* the projection last deleted out-of-band and not dealt with since
    op                  \* the last completed operation, with what it saw and returned

cfgVars == <<repositoryConfigs, platform, symlinkPermitted>>
fsVars  == <<mirror, promptsDir>>
catVars == <<prompts, activePrompts, isLoading>>
runVars == <<pass, timers, lost>>
vars    == <<repositoryConfigs, platform, symlinkPermitted, remote, mirror,
             promptsDir, prompts, activePrompts, isLoading, pass, timers, lost, op>>

-----------------------------------------------------------------------------
(* Text helpers: JavaScript string functions on token sequences.           *)

\* const x = v; F(x): v is computed once and handed on as a value
Bind(v, F(_)) == CHOOSE r \in {F(x) : x \in {v}} : TRUE

\* s.indexOf(t) on tokens, 1-based; 0 when absent
IndexOf(s, t) ==
    IF \E i \in 1..Len(s) : s[i] = t
    THEN CHOOSE i \in 1..Len(s) : s[i] = t /\ \A j \in 1..(i-1) : s[j] # t
    ELSE 0

\* s.lastIndexOf(t) on tokens, 1-based; 0 when absent
LastIndexOf(s, t) ==
    IF \E i \in 1..Len(s) : s[i] = t
    THEN CHOOSE i \in 1..Len(s) : s[i] = t /\ \A j \in (i+1)..Len(s) : s[j] # t
    ELSE 0

\* first position at which the token sequence sep occurs in s; 0 when absent
IndexOfSeq(s, sep) ==
    LET hits == {i \in 1..(Len(s) - Len(sep) + 1) : SubSeq(s, i, i + Len(sep) - 1) = sep}
    IN IF hits = {} THEN 0 ELSE CHOOSE i \in hits : \A j \in hits : i <= j

\* s.includes(sep)
Includes(s, sep) == IndexOfSeq(s, sep) # 0

\* s.split(sep): the pieces between the occurrences of sep, empty pieces kept
RECURSIVE Split(_, _)
Split(s, sep) ==
    Bind(IndexOfSeq(s, sep), LAMBDA i :
        IF i = 0 THEN <<s>>
        ELSE <<SubSeq(s, 1, i - 1)>> \o Split(SubSeq(s, i + Len(sep), Len(s)), sep))

\* s.endsWith(suffix)
EndsWith(s, suffix) ==
    Len(s) >= Len(suffix) /\ SubSeq(s, Len(s) - Len(suffix) + 1, Len(s)) = suffix

\* s.startsWith(prefix)
StartsWith(s, prefix) ==
    Len(s) >= Len(prefix) /\ SubSeq(s, 1, Len(prefix)) = prefix

\* s.replace(/^prefix/, '')
StripPrefix(s, prefix) ==
    IF StartsWith(s, prefix) THEN SubSeq(s, Len(prefix) + 1, Len(s)) ELSE s

\* s.replace(/suffix$/, '')
StripSuffix(s, suffix) ==
    IF EndsWith(s, suffix) THEN SubSeq(s, 1, Len(s) - Len(suffix)) ELSE s

\* parts.filter(p => p): the non-empty pieces
NonEmpty(parts) == SelectSeq(parts, LAMBDA p : p # <<>>)

\* `${a}-${b}`
Dashed(a, b) == a \o <<"-">> \o b

-----------------------------------------------------------------------------
(* Repository URLs, slugs and identifiers.                                 *)

GitHubUrl(owner, repo) == <<"https://", "github.com", "/">> \o owner \o <<"/">> \o repo

AzureUrl(org, project, repo) ==
    <<"https://", "dev.azure.com", "/">> \o org \o <<"/">> \o project
        \o <<"/", "_git", "/">> \o repo

\* Buffer.from(url).toString('base64url'): the token "b64" stands for "the
\* base64url text of what follows"; the encoding is injective and its text
\* is never the text of the URL itself.
encodeRepositorySlug(url) == <<"b64">> \o url

\* Buffer.from(slug, 'base64url').toString('utf8')
decodeRepositorySlug(slug) ==
    IF Len(slug) > 0 /\ slug[1] = "b64" THEN Tail(slug) ELSE <<"?">> \o slug

\* SyncManager.getRepositoryIdentifier
getRepositoryIdentifier(repositoryUrl) ==
    LET noProto == IF StartsWith(repositoryUrl, <<"https://">>)
                   THEN StripPrefix(repositoryUrl, <<"https://">>)
                   ELSE StripPrefix(repositoryUrl, <<"http://">>)
    IN Bind(StripSuffix(StripPrefix(noProto, <<"www.">>), <<".git">>), LAMBDA identifier :
       Bind(IF Includes(identifier, <<"github.com", "/">>)
            THEN Split(Split(identifier, <<"github.com", "/">>)[2], <<"/">>)
            ELSE <<>>, LAMBDA ghParts :
       Bind(SelectSeq(Split(identifier, <<"/">>),
                      LAMBDA p : p # <<>> /\ p # <<"_git">>), LAMBDA azParts :
       Bind(NonEmpty(Split(identifier, <<"/">>)), LAMBDA pathParts :
          IF Includes(identifier, <<"github.com", "/">>) /\ Len(ghParts) >= 2
          THEN Dashed(ghParts[1], ghParts[2])
          ELSE IF Includes(identifier, <<"dev.azure.com", "/">>) /\ Len(azParts) >= 4
          THEN Dashed(Dashed(azParts[2], azParts[3]), azParts[4])
          ELSE IF Len(pathParts) >= 2
          THEN Dashed(pathParts[Len(pathParts) - 1], pathParts[Len(pathParts)])
          ELSE IF Len(pathParts) >= 1 /\ pathParts[Len(pathParts)] # <<>>
          THEN pathParts[Len(pathParts)]
          ELSE <<"repo">>))))


-----------------------------------------------------------------------------
(* The universe of the model.                                              *)

MaxRepos   == 2   \* longest configured repository list
MaxContent == 2   \* file contents are 1..MaxContent; 0 is "no such file"

Contents == 1..MaxContent

\* three GitHub repositories; the first two have different owners and
\* names but the same owner-repo text a-b-c
UrlAB_C == GitHubUrl(<<"a", "-", "b">>, <<"c">>)
UrlA_BC == GitHubUrl(<<"a">>, <<"b", "-", "c">>)
UrlO_R  == GitHubUrl(<<"o">>, <<"r">>)
Urls    == {UrlAB_C, UrlA_BC, UrlO_R}

Branches == {"main", "develop"}

XName == <<"x", ".", "prompt", ".", "md">>
YName == <<"y", ".", "md">>
FileNames == {XName, YName}

\* <repoStorageDir>/<slug>/<file>, <some other root>/repos/<slug>/<file>, or a
\* path with no "repos" segment at all
MirrorPath(root, slug, file) == [root |-> root, slug |-> slug, file |-> file]
Roots == {"current", "stale", "foreign"}

\* SyncManager.getRepositoryPath joined with a file name
getRepositoryPath(repositoryUrl, fileName) ==
    MirrorPath("current", encodeRepositorySlug(repositoryUrl), fileName)

\* content of a file under the mirror root; 0 when there is none
MirrorContent(mir, path) ==
    IF /\ path.root = "current"
       /\ Len(path.slug) > 0 /\ path.slug[1] = "b64"
       /\ Tail(path.slug) \in DOMAIN mir
       /\ path.file \in DOMAIN mir[Tail(path.slug)]
    THEN mir[Tail(path.slug)][path.file]
    ELSE 0

\* entries of the activation directory
NoEntry      == [kind |-> "none"]
Symlink(t)   == [kind |-> "symlink", target |-> t]
\* by: who wrote the plain file ("copy": the copy fallback, "user": anyone
\* else); the program cannot observe it
Plain(c, by) == [kind |-> "file", content |-> c, by |-> by]

\* FileSystemManager.fileExists on an entry of the activation directory:
\* an existence check that follows symbolic links
fileExists(mir, entry) ==
    \/ entry.kind = "file"
    \/ entry.kind = "symlink" /\ MirrorContent(mir, entry.target) # 0

\* FileSystemManager.fileExists on a path under the mirror root
mirrorFileExists(mir, path) == MirrorContent(mir, path) # 0

\* what reading the entry yields: the content, 0 when it cannot be read
Resolve(mir, entry) ==
    IF entry.kind = "file" THEN entry.content
    ELSE IF entry.kind = "symlink" THEN MirrorContent(mir, entry.target)
    ELSE 0

-----------------------------------------------------------------------------
(* NameResolver.                                                           *)

\* SyncManager.getUniqueWorkspaceName
getUniqueWorkspaceName(fileName, repositoryUrl, configs, mir) ==
    LET reposWithFile == SelectSeq(configs,
            LAMBDA c : mirrorFileExists(mir, getRepositoryPath(c.url, fileName)))
    IN IF Len(reposWithFile) <= 1
       THEN fileName
       ELSE Bind(getRepositoryIdentifier(repositoryUrl), LAMBDA repoIdentifier :
            Bind(LastIndexOf(fileName, "."), LAMBDA lastDotIndex :
               IF lastDotIndex > 1
               THEN SubSeq(fileName, 1, lastDotIndex - 1) \o <<"@">> \o repoIdentifier
                        \o SubSeq(fileName, lastDotIndex, Len(fileName))
               ELSE fileName \o <<"@">> \o repoIdentifier))

\* every name an entry of the activation directory can have in the model
WorkspaceNames ==
    FileNames \cup {getUniqueWorkspaceName(f, u,
                        <<[url |-> a, branch |-> "main"], [url |-> b, branch |-> "main"]>>,
                        [w \in Urls |-> [g \in FileNames |-> 1]])
                    : f \in FileNames, u \in Urls, a \in Urls, b \in Urls}

-----------------------------------------------------------------------------
(* ActivationProjector: createPromptSymlink, removePromptSymlink,          *)
(* activatePrompt, deactivatePrompt.  Each returns [ok, dir, ...]: whether *)
(* it returned normally (FALSE: it threw) and the activation directory it  *)
(* leaves.                                                                 *)

\* The mutant of createPromptSymlink: an existing target is kept and
\* reported as the result.
createPromptSymlinkKeepExisting(dir, mir, plat, permitted, sourcePath, targetName) ==
    IF fileExists(mir, dir[targetName])
    THEN [ok |-> TRUE, dir |-> dir]
    ELSE IF permitted /\ dir[targetName].kind = "none"
    THEN [ok |-> TRUE, dir |-> [dir EXCEPT ![targetName] = Symlink(sourcePath)]]
    ELSE [ok |-> FALSE, dir |-> dir]

\* SyncManager.createPromptSymlink
createPromptSymlink(dir, mir, plat, permitted, sourcePath, targetName) ==
    \* remove existing file/symlink if it exists
    Bind(IF fileExists(mir, dir[targetName])
         THEN [dir EXCEPT ![targetName] = NoEntry]
         ELSE dir, LAMBDA d1 :
    Bind(MirrorContent(mir, sourcePath), LAMBDA source :
        LET \* fs.symlink: EEXIST when the name is taken (a dangling link is
            \* not seen by fileExists), EPERM when symlinks are not permitted
            eexist == d1[targetName].kind # "none"
            linked == ~eexist /\ permitted
            copied == ~eexist /\ ~permitted /\ plat = "win32" /\ source # 0
        IN Bind(IF linked THEN [d1 EXCEPT ![targetName] = Symlink(sourcePath)]
                ELSE IF copied THEN [d1 EXCEPT ![targetName] = Plain(source, "copy")]
                ELSE d1, LAMBDA d2 :
              [ok  |-> (linked \/ copied) /\ fileExists(mir, d2[targetName]),
               dir |-> d2])))

\* The mutant of removePromptSymlink: the Windows branch for plain copies is
\* missing.
removePromptSymlinkLinksOnly(dir, mir, plat, targetName, deleteFails) ==
    LET e == dir[targetName]
        removes == fileExists(mir, e) /\ e.kind = "symlink"
    IN IF removes /\ deleteFails THEN [ok |-> FALSE, dir |-> dir]
       ELSE IF removes THEN [ok |-> TRUE, dir |-> [dir EXCEPT ![targetName] = NoEntry]]
       ELSE [ok |-> TRUE, dir |-> dir]

\* SyncManager.removePromptSymlink; deleteFails: vscode.workspace.fs.delete
\* throws
removePromptSymlink(dir, mir, plat, targetName, deleteFails) ==
    LET e == dir[targetName]
        removes == fileExists(mir, e) /\ (e.kind = "symlink" \/ plat = "win32")
    IN IF removes /\ deleteFails THEN [ok |-> FALSE, dir |-> dir]
       ELSE IF removes THEN [ok |-> TRUE, dir |-> [dir EXCEPT ![targetName] = NoEntry]]
       ELSE [ok |-> TRUE, dir |-> dir]

\* SyncManager.activatePrompt; hasUrl = FALSE: called without a repositoryUrl
activatePrompt(dir, mir, configs, plat, permitted, promptPath, hasUrl, repositoryUrl) ==
    LET sourcePath == getRepositoryPath(repositoryUrl, promptPath)
    IN IF ~hasUrl \/ ~mirrorFileExists(mir, sourcePath)
       THEN [ok |-> FALSE, dir |-> dir, workspaceName |-> <<>>]
       ELSE Bind(getUniqueWorkspaceName(promptPath, repositoryUrl, configs, mir),
                 LAMBDA workspaceName :
            Bind(createPromptSymlink(dir, mir, plat, permitted, sourcePath, workspaceName),
                 LAMBDA made :
               IF ~made.ok
               THEN [ok |-> FALSE, dir |-> made.dir, workspaceName |-> <<>>]
               ELSE [ok |-> TRUE, dir |-> made.dir, workspaceName |-> workspaceName]))

\* SyncManager.deactivatePrompt
deactivatePrompt(dir, mir, plat, promptPath, deleteFails) ==
    removePromptSymlink(dir, mir, plat, promptPath, deleteFails)


-----------------------------------------------------------------------------
(* SyncEngine: the provider's trees, filterRelevantFiles, syncFiles and one *)
(* iteration of the loop of syncMultipleRepositories.                      *)

\* the directories of a repository that are synchronised
REPO_SYNC_CHAT_MODE_PATH == "agents/"
REPO_SYNC_CHAT_MODE_LEGACY_PATH == "chatmodes/"
REPO_SYNC_CHAT_MODE_LEGACY_SINGULAR_PATH == "chatmode/"
REPO_SYNC_INSTRUCTIONS_PATH == "instructions/"
REPO_SYNC_PROMPT_PATH == "prompts/"

\* an item of a repository tree; its path is the directory token followed by
\* the tokens of the file name
TreeItem(dir, name, content) ==
    [type |-> "blob", path |-> <<dir>> \o name, content |-> content]

\* FileSystemManager.getBasename of a tree path
getBasename(path) == Tail(path)

\* the sync types of the configuration
SyncTypes == [syncChatmode : BOOLEAN, syncInstructions : BOOLEAN, syncPrompt : BOOLEAN]
EverySyncType == [syncChatmode |-> TRUE, syncInstructions |-> TRUE, syncPrompt |-> TRUE]

\* the list filterRelevantFiles builds from the settings
allowedPathsOf(config) ==
    (IF config.syncChatmode
     THEN <<REPO_SYNC_CHAT_MODE_PATH, REPO_SYNC_CHAT_MODE_LEGACY_PATH,
            REPO_SYNC_CHAT_MODE_LEGACY_SINGULAR_PATH>>
     ELSE <<>>)
    \o (IF config.syncInstructions THEN <<REPO_SYNC_INSTRUCTIONS_PATH>> ELSE <<>>)
    \o (IF config.syncPrompt THEN <<REPO_SYNC_PROMPT_PATH>> ELSE <<>>)

\* replace(/\\/g, '/') on a token: a directory token ends with its separator
Slashed(token) ==
    CASE token = "\\" -> "/"
      [] token = "prompts\\" -> "prompts/"
      [] OTHER -> token

\* replace(/^\/+/, '') on tokens
RECURSIVE StripLeadingSlashes(_)
StripLeadingSlashes(path) ==
    IF Len(path) > 0 /\ path[1] = "/" THEN StripLeadingSlashes(Tail(path)) ELSE path

\* path.replace(/\\/g, '/').replace(/^\/+/, '')
normalizePath(path) == StripLeadingSlashes([i \in 1..Len(path) |-> Slashed(path[i])])

\* The mutant of matchesPath: the path is compared as the provider gave it.
matchesPathAsGiven(allowedPaths, path) ==
    \E i \in 1..Len(allowedPaths) : StartsWith(path, normalizePath(<<allowedPaths[i]>>))

\* matchesPath in filterRelevantFiles
matchesPath(allowedPaths, path) ==
    \E i \in 1..Len(allowedPaths) :
        StartsWith(normalizePath(path), normalizePath(<<allowedPaths[i]>>))

\* SyncManager.filterRelevantFiles under the settings config
filterRelevantFilesFor(config, tree) ==
    Bind(allowedPathsOf(config), LAMBDA allowedPaths :
        IF Len(allowedPaths) = 0 THEN <<>>
        ELSE SelectSeq(tree, LAMBDA item :
                /\ item.type = "blob"
                /\ matchesPath(allowedPaths, item.path)
                /\ \/ EndsWith(item.path, <<".", "md">>)
                   \/ EndsWith(item.path, <<".", "txt">>)))

\* SyncManager.filterRelevantFiles with every sync type enabled
filterRelevantFiles(tree) == filterRelevantFilesFor(EverySyncType, tree)

\* GitApiManager.getProviderName of the provider GitProviderFactory creates
\* for a repository URL
getProviderName(repoUrl) ==
    IF Includes(repoUrl, <<"dev.azure.com">>) THEN "azure" ELSE "github"

\* GitApiManager.parseRepositoryUrl: owner/repo of a GitHub URL; for Azure
\* DevOps the owner is encoded as organization|project|baseUrl
parseRepositoryUrl(repoUrl) ==
    IF getProviderName(repoUrl) = "azure"
    THEN LET parts == Split(Split(repoUrl, <<"dev.azure.com", "/">>)[2], <<"/">>)
         IN [owner |-> parts[1] \o <<"|">> \o parts[2]
                        \o <<"|", "https://", "dev.azure.com">>,
             repo  |-> parts[4]]
    ELSE LET parts == Split(Split(repoUrl, <<"github.com", "/">>)[2], <<"/">>)
         IN [owner |-> parts[1], repo |-> parts[2]]

\* the repositoryUrl syncFiles builds from the provider name, owner and repo
syncFilesRepositoryUrl(providerName, owner, repo) ==
    IF providerName = "github" THEN GitHubUrl(owner, repo)
    ELSE IF providerName = "azure"
    THEN <<"https://", "dev.azure.com", "/">> \o owner \o <<"/">> \o repo
    ELSE <<providerName, "/">> \o owner \o <<"/">> \o repo

\* The mutant of shouldUpdateFile: every fetched file is written.
shouldUpdateFileAlways(mir, localPath, newContent) == TRUE

\* SyncManager.shouldUpdateFile
shouldUpdateFile(mir, localPath, newContent) ==
    IF ~mirrorFileExists(mir, localPath) THEN TRUE
    ELSE MirrorContent(mir, localPath) # newContent

\* The mutant of writeFileContent: the repository's directory is emptied
\* before the file is written.
writeFileContentEmptiedDirectory(mir, repositoryUrl, fileName, content) ==
    [mir EXCEPT ![repositoryUrl] = [f \in FileNames |-> IF f = fileName THEN content ELSE 0]]

\* FileSystemManager.writeFileContent on a file of the mirror
writeFileContent(mir, repositoryUrl, fileName, content) ==
    [mir EXCEPT ![repositoryUrl][fileName] = content]

\* SyncManager.updateActivePromptSymlink; its errors are logged, not thrown
updateActivePromptSymlink(dir, mir, configs, plat, permitted, fileName, repositoryUrl) ==
    Bind(getUniqueWorkspaceName(fileName, repositoryUrl, configs, mir),
         LAMBDA workspaceName :
        LET newSourcePath == getRepositoryPath(repositoryUrl, fileName)
        IN IF fileExists(mir, dir[workspaceName]) /\ dir[workspaceName].kind = "symlink"
           THEN Bind(removePromptSymlink(dir, mir, plat, workspaceName, FALSE).dir,
                     LAMBDA removed :
                        createPromptSymlink(removed, mir, plat, permitted,
                                            newSourcePath, workspaceName).dir)
           ELSE dir)

\* The mutant of syncFile: a file whose write failed is counted and its
\* projection refreshed.
syncFileCountingFailedWrite(st, configs, plat, permitted, repositoryUrl, file, writeFails) ==
    LET fileName == getBasename(file.path)
        repoFilePath == getRepositoryPath(repositoryUrl, fileName)
    IN IF ~shouldUpdateFile(st.mirror, repoFilePath, file.content) THEN st
       ELSE Bind(IF writeFails THEN st.mirror
                 ELSE writeFileContent(st.mirror, repositoryUrl, fileName, file.content),
                 LAMBDA written :
                     [mirror |-> written,
                      dir |-> updateActivePromptSymlink(st.dir, written, configs,
                                  plat, permitted, fileName, repositoryUrl),
                      itemsUpdated |-> st.itemsUpdated + 1])

\* The body of the loop of SyncManager.syncFiles for a file whose content
\* was fetched; st = [mirror, dir, itemsUpdated]; writeFails: writeFileContent
\* throws, which is logged and leaves the file as it was
syncFile(st, configs, plat, permitted, repositoryUrl, file, writeFails) ==
    LET fileName == getBasename(file.path)
        repoFilePath == getRepositoryPath(repositoryUrl, fileName)
    IN IF ~shouldUpdateFile(st.mirror, repoFilePath, file.content) \/ writeFails THEN st
       ELSE Bind(writeFileContent(st.mirror, repositoryUrl, fileName, file.content),
                 LAMBDA written :
                     [mirror |-> written,
                      dir |-> updateActivePromptSymlink(st.dir, written, configs,
                                  plat, permitted, fileName, repositoryUrl),
                      itemsUpdated |-> st.itemsUpdated + 1])

\* The loop of SyncManager.syncFiles from file k on; failAt: the file whose
\* getFileContent throws, writeFailAt: the file whose write throws (0: none)
RECURSIVE syncFilesFrom(_, _, _, _, _, _, _, _, _)
syncFilesFrom(st, configs, plat, permitted, repositoryUrl, files, k, failAt, writeFailAt) ==
    IF k > Len(files) \/ k = failAt THEN st
    ELSE Bind(syncFile(st, configs, plat, permitted, repositoryUrl, files[k],
                       k = writeFailAt),
              LAMBDA next : syncFilesFrom(next, configs, plat, permitted,
                                          repositoryUrl, files, k + 1, failAt, writeFailAt))

\* The mutant of syncFiles: a failed getFileContent skips nothing, every file
\* is written.
syncFilesIgnoringFailure(mir, dir, configs, plat, permitted, providerName, owner, repo, files, failAt, writeFailAt) ==
    Bind(syncFilesRepositoryUrl(providerName, owner, repo), LAMBDA repositoryUrl :
        syncFilesFrom([mirror |-> mir, dir |-> dir, itemsUpdated |-> 0], configs,
                      plat, permitted, repositoryUrl, files, 1, 0, writeFailAt))

\* SyncManager.syncFiles
syncFiles(mir, dir, configs, plat, permitted, providerName, owner, repo, files, failAt, writeFailAt) ==
    Bind(syncFilesRepositoryUrl(providerName, owner, repo), LAMBDA repositoryUrl :
        syncFilesFrom([mirror |-> mir, dir |-> dir, itemsUpdated |-> 0], configs,
                      plat, permitted, repositoryUrl, files, 1, failAt, writeFailAt))

\* what the provider answers to the authentication calls of one repository:
\* the first checkAuthentication, the checkAuthentication after the
\* notification, and requestAuthentication
Answers(first, second, granted) == [first |-> first, second |-> second, granted |-> granted]
Authenticated == Answers(TRUE, TRUE, TRUE)
Denied == Answers(FALSE, FALSE, FALSE)
GrantingAnswers ==
    {Authenticated, Answers(FALSE, TRUE, TRUE), Answers(FALSE, FALSE, TRUE)}

\* The mutant of authenticate: requestAuthentication follows the notification
\* without a second checkAuthentication.
authenticateWithoutRecheck(answers) ==
    IF answers.first
    THEN [ok |-> TRUE, calls |-> <<"checkAuthentication">>]
    ELSE [ok |-> answers.granted,
          calls |-> <<"checkAuthentication", "showAuthenticationRequired",
                      "requestAuthentication">>]

\* The authentication of one repository in syncMultipleRepositories: whether
\* the repository is synchronised, and the calls made
authenticate(answers) ==
    IF answers.first
    THEN [ok |-> TRUE, calls |-> <<"checkAuthentication">>]
    ELSE IF answers.second
    THEN [ok |-> TRUE,
          calls |-> <<"checkAuthentication", "showAuthenticationRequired",
                      "checkAuthentication">>]
    ELSE [ok |-> answers.granted,
          calls |-> <<"checkAuthentication", "showAuthenticationRequired",
                      "checkAuthentication", "requestAuthentication">>]

\* what the provider does during one repository of a pass; the provider is
\* authenticated unless the outcome is the failed authentication
Outcome(kind, failAt) ==
    [kind |-> kind, failAt |-> failAt,
     answers |-> IF kind = "authenticationFailed" THEN Denied ELSE Authenticated]
Outcomes(tree) ==
    {Outcome("ok", 0), Outcome("authenticationFailed", 0), Outcome("treeFailed", 0)}
        \cup {Outcome("contentFailed", k) : k \in 1..Len(filterRelevantFiles(tree))}

\* writeFileContent throws for one file of the repository
WriteFailures(tree) ==
    {Outcome("writeFailed", k) : k \in 1..Len(filterRelevantFiles(tree))}

\* the same with every way of getting authenticated
AnsweredOutcomes(tree) ==
    {[o EXCEPT !.answers = a] :
        o \in {q \in Outcomes(tree) : q.kind # "authenticationFailed"},
        a \in GrantingAnswers}
        \cup {Outcome("authenticationFailed", 0)}

\* RepositorySyncResult; fetched: the provider served every request and
\* every write went through, which the program does not record
RepositorySyncResult(repository, success, itemsUpdated, outcome) ==
    [repository |-> repository, success |-> success,
     itemsUpdated |-> itemsUpdated, fetched |-> outcome.kind = "ok"]

\* The mutant of syncRepository: a tree without relevant files is a success
\* with no items.
syncRepositoryEmptyIsSuccess(mir, dir, configs, plat, permitted, entry, tree, outcome) ==
    Bind(filterRelevantFiles(tree), LAMBDA relevantFiles :
    Bind(authenticate(outcome.answers), LAMBDA auth :
        LET parsed == parseRepositoryUrl(entry.url)
        IN IF ~auth.ok
           THEN [mirror |-> mir, dir |-> dir, calls |-> auth.calls,
                 result |-> RepositorySyncResult(entry.url, FALSE, 0, outcome)]
           ELSE IF outcome.kind = "treeFailed"
           THEN [mirror |-> mir, dir |-> dir,
                 calls |-> Append(auth.calls, "getRepositoryTree"),
                 result |-> RepositorySyncResult(entry.url, FALSE, 0, outcome)]
           ELSE Bind(syncFiles(mir, dir, configs, plat, permitted,
                               getProviderName(entry.url), parsed.owner,
                               parsed.repo, relevantFiles,
                               IF outcome.kind = "contentFailed" THEN outcome.failAt ELSE 0,
                               IF outcome.kind = "writeFailed" THEN outcome.failAt ELSE 0),
                     LAMBDA synced :
                        [mirror |-> synced.mirror, dir |-> synced.dir,
                         calls |-> Append(auth.calls, "getRepositoryTree"),
                         result |-> RepositorySyncResult(entry.url, TRUE,
                                        synced.itemsUpdated, outcome)])))

\* One iteration of the loop of SyncManager.syncMultipleRepositories:
\* [mirror, dir, result, calls]; calls: the authentication calls and
\* getRepositoryTree, in the order they were made
syncRepository(mir, dir, configs, plat, permitted, entry, tree, outcome) ==
    Bind(filterRelevantFiles(tree), LAMBDA relevantFiles :
    Bind(authenticate(outcome.answers), LAMBDA auth :
        LET parsed == parseRepositoryUrl(entry.url)
        IN IF ~auth.ok
           THEN [mirror |-> mir, dir |-> dir, calls |-> auth.calls,
                 result |-> RepositorySyncResult(entry.url, FALSE, 0, outcome)]
           ELSE IF outcome.kind = "treeFailed" \/ Len(relevantFiles) = 0
           THEN [mirror |-> mir, dir |-> dir,
                 calls |-> Append(auth.calls, "getRepositoryTree"),
                 result |-> RepositorySyncResult(entry.url, FALSE, 0, outcome)]
           ELSE Bind(syncFiles(mir, dir, configs, plat, permitted,
                               getProviderName(entry.url), parsed.owner,
                               parsed.repo, relevantFiles,
                               IF outcome.kind = "contentFailed" THEN outcome.failAt ELSE 0,
                               IF outcome.kind = "writeFailed" THEN outcome.failAt ELSE 0),
                     LAMBDA synced :
                        [mirror |-> synced.mirror, dir |-> synced.dir,
                         calls |-> Append(auth.calls, "getRepositoryTree"),
                         result |-> RepositorySyncResult(entry.url, TRUE,
                                        synced.itemsUpdated, outcome)])))

\* The mutant of overallSuccess: one successful repository is enough.
overallSuccessAnyRepository(results) ==
    \E i \in 1..Len(results) : results[i].success

\* results.every(r => r.success)
overallSuccess(results) ==
    \A i \in 1..Len(results) : results[i].success

-----------------------------------------------------------------------------
(* Reconciliation: fixBrokenSymlinks, recreateActivePromptSymlinks,        *)
(* cleanupOrphanedPrompts.                                                 *)

\* no repository URL (undefined)
NoUrl == <<>>

\* s.replace(/a/g, b) on tokens
ReplaceAll(s, a, b) == [i \in 1..Len(s) |-> IF s[i] = a THEN b ELSE s[i]]

\* pathParts.findIndex(part => part === 'repos') finds a segment
HasReposSegment(path) == path.root \in {"current", "stale"}

\* a directory name that is the URL without its protocol, every "/" written
\* as "_": the form extractRepositoryUrlFromTargetPath decodes
UnderscoreSlug(url) == ReplaceAll(StripPrefix(url, <<"https://">>), "/", "_")

\* SyncManager.extractRepositoryUrlFromTargetPath
extractRepositoryUrlFromTargetPath(targetPath) ==
    IF HasReposSegment(targetPath)
    THEN <<"https://">> \o ReplaceAll(targetPath.slug, "_", "/")
    ELSE NoUrl

\* The mutant of fixBrokenSymlinks: a broken symlink that cannot be repaired
\* is unlinked.
fixBrokenSymlinksUnlinkUnfixable(dir, mir, plat, permitted) ==
    [n \in DOMAIN dir |->
        LET e == dir[n]
            unlinked == [dir EXCEPT ![n] = NoEntry]
        IN IF e.kind = "symlink" /\ ~fileExists(mir, e)
           THEN Bind(extractRepositoryUrlFromTargetPath(e.target), LAMBDA repositoryUrl :
                Bind(getRepositoryPath(repositoryUrl, n), LAMBDA newSourcePath :
                   IF repositoryUrl # NoUrl /\ mirrorFileExists(mir, newSourcePath)
                   THEN createPromptSymlink(unlinked, mir, plat, permitted,
                                            newSourcePath, n).dir[n]
                   ELSE NoEntry))
           ELSE e]

\* SyncManager.fixBrokenSymlinks; every entry is treated on its own
fixBrokenSymlinks(dir, mir, plat, permitted) ==
    [n \in DOMAIN dir |->
        LET e == dir[n]
            unlinked == [dir EXCEPT ![n] = NoEntry]
        IN IF e.kind = "symlink" /\ ~fileExists(mir, e)
           THEN Bind(extractRepositoryUrlFromTargetPath(e.target), LAMBDA repositoryUrl :
                Bind(getRepositoryPath(repositoryUrl, n), LAMBDA newSourcePath :
                   IF repositoryUrl # NoUrl /\ mirrorFileExists(mir, newSourcePath)
                   THEN createPromptSymlink(unlinked, mir, plat, permitted,
                                            newSourcePath, n).dir[n]
                   ELSE e))
           ELSE e]

\* The loop of SyncManager.recreateActivePromptSymlinks over the records of
\* the catalog from record k on; st = [dir, prompts]
RECURSIVE recreateFrom(_, _, _, _, _, _)
recreateFrom(st, k, mir, configs, plat, permitted) ==
    IF k > Len(st.prompts) THEN st
    ELSE LET prompt == st.prompts[k]
             exists == fileExists(mir, st.dir[prompt.path])
             recreated ==
                Bind(activatePrompt(st.dir, mir, configs, plat, permitted,
                                    prompt.name, TRUE, prompt.repositoryUrl),
                     LAMBDA act :
                        [dir |-> act.dir,
                         prompts |-> [st.prompts EXCEPT ![k].workspaceName =
                            IF act.ok /\ (prompt.workspaceName = <<>>
                                            \/ act.workspaceName # prompt.path)
                            THEN act.workspaceName ELSE @]])
         IN Bind(IF prompt.active /\ ~exists /\ prompt.repositoryUrl # NoUrl
                 THEN recreated ELSE st,
                 LAMBDA next : recreateFrom(next, k + 1, mir, configs, plat, permitted))

\* SyncManager.recreateActivePromptSymlinks: [dir, prompts]
recreateActivePromptSymlinks(dir, catalog, mir, configs, plat, permitted) ==
    Bind([dir |-> fixBrokenSymlinks(dir, mir, plat, permitted), prompts |-> catalog],
         LAMBDA st : recreateFrom(st, 1, mir, configs, plat, permitted))

\* The mutant of cleanupOrphanedPrompts: the test for a file of the same name
\* in a configured repository's mirror is missing.
cleanupOrphanedPromptsAnyFile(dir, catalog, mir, configs, plat) ==
    [n \in DOMAIN dir |->
        LET e == dir[n]
            isActive == \E k \in 1..Len(catalog) :
                catalog[k].name = n /\ catalog[k].active
        IN IF e.kind = "file" /\ ~(plat = "win32" /\ isActive)
           THEN NoEntry
           ELSE e]

\* SyncManager.cleanupOrphanedPrompts; every entry is treated on its own
cleanupOrphanedPrompts(dir, catalog, mir, configs, plat) ==
    [n \in DOMAIN dir |->
        LET e == dir[n]
            existsInRepo == \E i \in 1..Len(configs) :
                mirrorFileExists(mir, getRepositoryPath(configs[i].url, n))
            isActive == \E k \in 1..Len(catalog) :
                catalog[k].name = n /\ catalog[k].active
        IN IF e.kind = "file" /\ existsInRepo /\ ~(plat = "win32" /\ isActive)
           THEN NoEntry
           ELSE e]

-----------------------------------------------------------------------------
(* PromptCatalog: PromptTreeDataProvider.loadPrompts.  The files of the    *)
(* model all fall into the category 'prompts', so the catalog is one list  *)
(* in load order.                                                          *)

PromptInfo(name, path, active, repositoryUrl, workspaceName) ==
    [name |-> name, path |-> path, active |-> active,
     repositoryUrl |-> repositoryUrl, workspaceName |-> workspaceName]

\* PromptTreeDataProvider.isPromptFile
isPromptFile(fileName) ==
    /\ fileName[1] \notin {".", "_"}
    /\ EndsWith(fileName, <<".", "md">>) \/ EndsWith(fileName, <<".", "txt">>)

\* PromptTreeDataProvider.extractRepositoryUrlFromPath
extractRepositoryUrlFromPath(targetPath) ==
    IF HasReposSegment(targetPath) THEN decodeRepositorySlug(targetPath.slug) ELSE NoUrl

\* PromptTreeDataProvider.createPromptInfo: the record of an entry of the
\* activation directory, none when fs.stat throws
createPromptInfo(dir, mir, configs, plat, fileName) ==
    LET e == dir[fileName]
        isSymlink == e.kind = "symlink"
        holders == SelectSeq(configs,
            LAMBDA c : mirrorFileExists(mir, getRepositoryPath(c.url, fileName)))
        isActiveFileCopy == ~isSymlink /\ plat = "win32" /\ Len(holders) > 0
        repositoryUrl == IF isSymlink THEN extractRepositoryUrlFromPath(e.target)
                         ELSE IF isActiveFileCopy THEN holders[1].url
                         ELSE NoUrl
    IN IF ~fileExists(mir, e) THEN <<>>
       ELSE <<PromptInfo(fileName, fileName, isSymlink \/ isActiveFileCopy,
                         repositoryUrl, fileName)>>

\* PromptTreeDataProvider.calculateWorkspaceName on the records loaded so
\* far; the directory <parent of the prompts directory>/repos it looks into
\* is not the mirror root and does not exist
calculateWorkspaceName(loaded, fileName, repositoryUrl) ==
    LET promptsWithSameName == SelectSeq(loaded, LAMBDA p : p.name = fileName)
    IN IF Len(promptsWithSameName) <= 1
       THEN fileName
       ELSE Bind(getRepositoryIdentifier(repositoryUrl), LAMBDA repoIdentifier :
            Bind(LastIndexOf(fileName, "."), LAMBDA lastDotIndex :
               IF lastDotIndex > 1
               THEN SubSeq(fileName, 1, lastDotIndex - 1) \o <<"@">> \o repoIdentifier
                        \o SubSeq(fileName, lastDotIndex, Len(fileName))
               ELSE fileName \o <<"@">> \o repoIdentifier))

\* The mutant of createRepositoryPromptInfo: a mirrored file is reported
\* active whatever the activation directory holds.
createRepositoryPromptInfoAlwaysActive(loaded, dir, mir, plat, fileName, repositoryUrl) ==
    Bind(calculateWorkspaceName(loaded, fileName, repositoryUrl), LAMBDA workspaceName :
        PromptInfo(fileName, workspaceName, TRUE, repositoryUrl, workspaceName))

\* PromptTreeDataProvider.createRepositoryPromptInfo
createRepositoryPromptInfo(loaded, dir, mir, plat, fileName, repositoryUrl) ==
    Bind(calculateWorkspaceName(loaded, fileName, repositoryUrl), LAMBDA workspaceName :
        LET e == dir[workspaceName]
            isActive == /\ fileExists(mir, e)
                        /\ IF e.kind = "symlink"
                           THEN e.target = getRepositoryPath(repositoryUrl, fileName)
                           ELSE plat = "win32"
        IN PromptInfo(fileName, workspaceName, isActive, repositoryUrl, workspaceName))

\* PromptTreeDataProvider.findPromptByNameAndRepository finds a record
findPromptByNameAndRepository(loaded, fileName, repositoryUrl) ==
    \E k \in 1..Len(loaded) :
        loaded[k].name = fileName /\ loaded[k].repositoryUrl = repositoryUrl

\* the entries of a directory as a list: the order readDirectory returns
\* them in, which is the same on every call
RECURSIVE Listing(_)
Listing(S) ==
    IF S = {} THEN <<>>
    ELSE LET first == CHOOSE a \in S : TRUE
         IN <<first>> \o Listing(S \ {first})

\* The first loop of loadPrompts over the listing of the activation
\* directory from entry k on
RECURSIVE loadWorkspaceFrom(_, _, _, _, _, _, _)
loadWorkspaceFrom(loaded, files, k, dir, mir, configs, plat) ==
    IF k > Len(files) THEN loaded
    ELSE Bind(IF isPromptFile(files[k])
              THEN loaded \o createPromptInfo(dir, mir, configs, plat, files[k])
              ELSE loaded,
              LAMBDA next : loadWorkspaceFrom(next, files, k + 1, dir, mir, configs, plat))

\* The loops of loadPromptsFromRepositoryStorage over the files of the
\* mirror, <<repoDir, file>> in listing order, from pair k on
RECURSIVE loadRepositoryStorageFrom(_, _, _, _, _, _)
loadRepositoryStorageFrom(loaded, pairs, k, dir, mir, plat) ==
    IF k > Len(pairs) THEN loaded
    ELSE LET file == pairs[k][2]
             repositoryUrl == decodeRepositorySlug(pairs[k][1])
         IN Bind(IF isPromptFile(file)
                    /\ ~findPromptByNameAndRepository(loaded, file, repositoryUrl)
                 THEN Append(loaded, createRepositoryPromptInfo(loaded, dir, mir, plat,
                                                                file, repositoryUrl))
                 ELSE loaded,
                 LAMBDA next : loadRepositoryStorageFrom(next, pairs, k + 1, dir, mir, plat))

\* the files of the mirror root: <<slug directory, file name>>
RepositoryStorageListing(mir) ==
    LET urls == Listing(DOMAIN mir)
        files == Listing(FileNames)
        pairs == [k \in 1..(Len(urls) * Len(files)) |->
                    <<urls[((k - 1) \div Len(files)) + 1],
                      files[((k - 1) % Len(files)) + 1]>>]
    IN [k \in 1..Len(SelectSeq(pairs, LAMBDA p : mir[p[1]][p[2]] # 0)) |->
            LET p == SelectSeq(pairs, LAMBDA q : mir[q[1]][q[2]] # 0)[k]
            IN <<encodeRepositorySlug(p[1]), p[2]>>]

\* the entries of the activation directory
readDirectory(dir) == Listing({n \in DOMAIN dir : dir[n].kind # "none"})

\* PromptTreeDataProvider.loadPrompts: the records it leaves in prompts
loadPrompts(dir, mir, configs, plat) ==
    Bind(loadWorkspaceFrom(<<>>, readDirectory(dir), 1, dir, mir, configs, plat),
         LAMBDA fromWorkspace :
            Bind(RepositoryStorageListing(mir), LAMBDA pairs :
                loadRepositoryStorageFrom(fromWorkspace, pairs, 1, dir, mir, plat)))

\* the paths createPromptInfo adds to activePrompts during loadPrompts
loadedActivePaths(dir, mir, configs, plat) ==
    Bind(loadWorkspaceFrom(<<>>, readDirectory(dir), 1, dir, mir, configs, plat),
         LAMBDA loaded : {loaded[k].path : k \in {j \in 1..Len(loaded) : loaded[j].active}})

\* PromptTreeDataProvider.toggleSelection on record k: [prompts, activePrompts]
toggleSelection(catalog, active, k) ==
    IF catalog[k].active
    THEN [prompts |-> [catalog EXCEPT ![k].active = FALSE],
          activePrompts |-> active \ {catalog[k].path}]
    ELSE [prompts |-> [catalog EXCEPT ![k].active = TRUE],
          activePrompts |-> active \cup {catalog[k].path}]

-----------------------------------------------------------------------------
(* Configurations and initial states.                                      *)

RepoConfig(url, branch) == [url |-> url, branch |-> branch]

\* the entries a configuration is drawn from; the same repository may be
\* listed once per branch ("url" and "url|develop")
ConfigEntries ==
    {RepoConfig(u, "main") : u \in Urls} \cup {RepoConfig(UrlO_R, "develop")}

\* ConfigManager.repositories removes exact duplicates
RECURSIVE SeqsNoRepeat(_, _)
SeqsNoRepeat(S, n) ==
    IF n = 0 THEN {<<>>}
    ELSE LET shorter == SeqsNoRepeat(S, n - 1)
         IN shorter \cup {Append(q, e) : q \in {r \in shorter : Len(r) = n - 1},
                                          e \in S}

Configs ==
    {q \in SeqsNoRepeat(ConfigEntries, MaxRepos) :
        /\ Len(q) >= 1
        /\ \A i, j \in 1..Len(q) : i # j => q[i] # q[j]}

ConfiguredUrls(configs) == {configs[i].url : i \in 1..Len(configs)}

EmptyDir == [n \in WorkspaceNames |-> NoEntry]
EmptyMirror == [u \in Urls |-> [f \in FileNames |-> 0]]

\* the platforms: symlinks work, or (Windows without developer mode) every
\* fs.symlink fails with EPERM
Platforms ==
    {[platform |-> "linux", permitted |-> TRUE],
     [platform |-> "win32", permitted |-> TRUE],
     [platform |-> "win32", permitted |-> FALSE]}

NoOp == [name |-> "none"]

-----------------------------------------------------------------------------
(* Operations on the activation directory.                                 *)

\* SyncManager.activatePrompt called for (repositoryUrl, promptPath)
ActivatePrompt(promptPath, hasUrl, repositoryUrl) ==
    \E r \in {activatePrompt(promptsDir, mirror, repositoryConfigs, platform,
                              symlinkPermitted, promptPath, hasUrl, repositoryUrl)} :
       /\ promptsDir' = r.dir
       /\ op' = [name |-> "activatePrompt", promptPath |-> promptPath,
                 hasUrl |-> hasUrl, repositoryUrl |-> repositoryUrl,
                 ok |-> r.ok, workspaceName |-> r.workspaceName,
                 dirBefore |-> promptsDir]
       /\ UNCHANGED <<cfgVars, remote, mirror, catVars, runVars>>

\* SyncManager.deactivatePrompt called for a workspace name; the record
\* keeps the activation that immediately preceded it, if any
DeactivatePrompt(promptPath, deleteFails) ==
    \E r \in {deactivatePrompt(promptsDir, mirror, platform, promptPath, deleteFails)} :
       /\ promptsDir' = r.dir
       /\ op' = [name |-> "deactivatePrompt", promptPath |-> promptPath,
                 ok |-> r.ok, dirBefore |-> promptsDir,
                 activated |-> IF op.name = "activatePrompt" THEN op ELSE NoOp]
       /\ UNCHANGED <<cfgVars, remote, mirror, catVars, runVars>>

\* out-of-band: somebody writes a plain file into the activation directory
UserWritesFile(name, content) ==
    /\ promptsDir[name].kind = "none"
    /\ promptsDir' = [promptsDir EXCEPT ![name] = Plain(content, "user")]
    /\ op' = [name |-> "outOfBand"]
    /\ UNCHANGED <<cfgVars, remote, mirror, catVars, runVars>>

\* out-of-band: somebody deletes an entry of the activation directory
UserDeletesEntry(name) ==
    /\ promptsDir[name].kind # "none"
    /\ promptsDir' = [promptsDir EXCEPT ![name] = NoEntry]
    /\ op' = [name |-> "outOfBand"]
    /\ UNCHANGED <<cfgVars, remote, mirror, catVars, runVars>>

-----------------------------------------------------------------------------
(* The sync pass (SyncManager.syncNow) in steps, its triggers, and the      *)
(* catalog's asynchronous load.                                            *)

MaxPasses == 2   \* invocations of syncNow that can be in progress together

Passes == 1..MaxPasses
Idle == [pc |-> "idle"]
NoPasses == [id \in Passes |-> Idle]

\* the passes in progress
Running == {id \in DOMAIN pass : pass[id].pc # "idle"}

\* every repository of a pass was fetched without a provider failure
AllFetched(results) == \A i \in 1..Len(results) : results[i].fetched

\* PromptTreeDataProvider.refresh: dropped while a load is in progress,
\* otherwise loadPrompts starts (isLoading set, the records cleared)
refresh ==
    IF isLoading THEN UNCHANGED catVars
    ELSE /\ isLoading' = TRUE
         /\ prompts' = <<>>
         /\ UNCHANGED activePrompts

\* SyncManager.syncNow is called: a pass starts, whatever else is running
syncNow(trigger) ==
    \E id \in Passes :
        /\ pass[id].pc = "idle"
        /\ \A j \in Passes : j < id => pass[j].pc # "idle"
        /\ pass' = [pass EXCEPT ![id] =
                [pc |-> "repos", trigger |-> trigger, i |-> 1, results |-> <<>>,
                 calls |-> <<>>,
                 totalItemsUpdated |-> 0, dirBefore |-> promptsDir,
                 follows |-> op.name = "syncNow" /\ AllFetched(op.results),
                 lost |-> lost]]

\* the promptitude.syncNow command
ManualSync ==
    /\ syncNow("command")
    /\ UNCHANGED <<cfgVars, remote, fsVars, catVars, timers, lost, op>>

\* a setTimeout callback fires: the startup sync or the periodic sync
TimerFires(t) ==
    /\ t \in timers
    /\ timers' = timers \ {t}
    /\ syncNow(t)
    /\ UNCHANGED <<cfgVars, remote, fsVars, catVars, lost, op>>

\* a configuration change: scheduleNextSync re-arms the periodic timer, the
\* extension refreshes the catalog
ConfigurationChanged ==
    /\ timers' = timers \cup {"periodic"}
    /\ refresh
    /\ UNCHANGED <<cfgVars, remote, fsVars, pass, lost, op>>

\* The mutant of afterSyncRepository: a pass in which a repository failed
\* goes straight to its end.
afterSyncRepositoryFailureEndsPass(i, configs, results) ==
    IF i < Len(configs) THEN "repos"
    ELSE IF overallSuccess(results) THEN "recreate" ELSE "finish"

\* where a pass goes after the turn of repository i: to the next repository,
\* or, after the last one, to recreateActivePromptSymlinks, whatever the
\* results are
afterSyncRepository(i, configs, results) ==
    IF i < Len(configs) THEN "repos" ELSE "recreate"

\* one iteration of the loop of syncMultipleRepositories in pass id
SyncRepository(id, outcome) ==
    /\ pass[id].pc = "repos"
    /\ LET entry == repositoryConfigs[pass[id].i]
       IN /\ outcome \in AnsweredOutcomes(remote[entry]) \cup WriteFailures(remote[entry])
          /\ \E r \in {syncRepository(mirror, promptsDir, repositoryConfigs, platform,
                        symlinkPermitted, entry, remote[entry], outcome)} :
                /\ mirror' = r.mirror
                /\ promptsDir' = r.dir
                /\ pass' = [pass EXCEPT
                      ![id].i = @ + 1,
                      ![id].results = Append(@, r.result),
                      ![id].calls = r.calls,
                      ![id].totalItemsUpdated = @ + r.result.itemsUpdated,
                      ![id].pc = afterSyncRepository(pass[id].i, repositoryConfigs,
                                                     Append(pass[id].results, r.result))]
    /\ UNCHANGED <<cfgVars, remote, catVars, timers, lost, op>>

\* recreateActivePromptSymlinks in pass id
RecreateActivePromptSymlinks(id) ==
    /\ pass[id].pc = "recreate"
    /\ \E r \in {recreateActivePromptSymlinks(promptsDir, prompts, mirror,
                    repositoryConfigs, platform, symlinkPermitted)} :
          /\ promptsDir' = r.dir
          /\ prompts' = r.prompts
    /\ pass' = [pass EXCEPT ![id].pc = "cleanup"]
    /\ UNCHANGED <<cfgVars, remote, mirror, activePrompts, isLoading, timers, lost, op>>

\* cleanupOrphanedPrompts in pass id
CleanupOrphanedPrompts(id) ==
    /\ pass[id].pc = "cleanup"
    /\ promptsDir' = cleanupOrphanedPrompts(promptsDir, prompts, mirror,
                                            repositoryConfigs, platform)
    /\ pass' = [pass EXCEPT ![id].pc = "finish"]
    /\ UNCHANGED <<cfgVars, remote, mirror, catVars, timers, lost, op>>

\* The mutant of syncStatus: when every repository failed the status is
\* left as it was set at the start of the pass.
syncStatusLeftSyncing(results) ==
    IF \E i \in 1..Len(results) : results[i].success THEN "Success" ELSE "Syncing"

\* the status syncNow sets after the repositories were processed: Success
\* (also when only some repositories succeeded), Error when all failed
syncStatus(results) ==
    IF overallSuccess(results) THEN "Success"
    ELSE IF Len(SelectSeq(results, LAMBDA r : r.success)) > 0 THEN "Success"
    ELSE "Error"

\* the end of pass id: the catalog is refreshed, the next sync scheduled and
\* the SyncResult returned
FinishSync(id) ==
    /\ pass[id].pc = "finish"
    /\ refresh
    /\ timers' = timers \cup {"periodic"}
    /\ pass' = [pass EXCEPT ![id] = Idle]
    /\ lost' = IF pass[id].lost = lost THEN NoEntry ELSE lost
    /\ op' = [name |-> "syncNow", trigger |-> pass[id].trigger,
              results |-> pass[id].results,
              success |-> overallSuccess(pass[id].results),
              status |-> syncStatus(pass[id].results),
              itemsUpdated |-> pass[id].totalItemsUpdated,
              dirBefore |-> pass[id].dirBefore,
              follows |-> pass[id].follows,
              lost |-> pass[id].lost]
    /\ UNCHANGED <<cfgVars, remote, fsVars>>

\* the load a refresh started completes
LoadPromptsEnd ==
    /\ isLoading
    /\ prompts' = loadPrompts(promptsDir, mirror, repositoryConfigs, platform)
    /\ activePrompts' = activePrompts
            \cup loadedActivePaths(promptsDir, mirror, repositoryConfigs, platform)
    /\ isLoading' = FALSE
    /\ UNCHANGED <<cfgVars, remote, fsVars, runVars, op>>

\* the refresh command of the prompts view
Refresh ==
    /\ ~isLoading
    /\ refresh
    /\ UNCHANGED <<cfgVars, remote, fsVars, runVars, op>>

\* the provider's tree of a configured repository changes between passes
RemoteChanges(entry, tree) ==
    /\ Running = {}
    /\ remote[entry] # tree
    /\ remote' = [remote EXCEPT ![entry] = tree]
    /\ op' = [name |-> "remoteChange"]
    /\ UNCHANGED <<cfgVars, fsVars, catVars, runVars>>

\* the user removes entry i from promptitude.repositories between passes:
\* the configuration listeners run as for any other change
RepositoryRemoved(i) ==
    /\ Running = {}
    /\ Len(repositoryConfigs) >= 2
    /\ i \in 1..Len(repositoryConfigs)
    /\ repositoryConfigs' = SubSeq(repositoryConfigs, 1, i - 1)
                                \o SubSeq(repositoryConfigs, i + 1, Len(repositoryConfigs))
    /\ timers' = timers \cup {"periodic"}
    /\ refresh
    /\ op' = [name |-> "repositoryRemoved"]
    /\ UNCHANGED <<platform, symlinkPermitted, remote, fsVars, pass, lost>>

\* out-of-band: somebody deletes the projection of an active file while no
\* pass is running
UserDeletesProjection(name) ==
    /\ Running = {}
    /\ lost = NoEntry
    /\ fileExists(mirror, promptsDir[name])
    /\ IF promptsDir[name].kind = "file" THEN promptsDir[name].by = "copy" ELSE TRUE
    /\ promptsDir' = [promptsDir EXCEPT ![name] = NoEntry]
    /\ lost' = [kind |-> "lost", name |-> name, entry |-> promptsDir[name]]
    /\ op' = [name |-> "outOfBand"]
    /\ UNCHANGED <<cfgVars, remote, mirror, catVars, pass, timers>>

\* the promptitude.cleanupOrphanedPrompts command, confirmed by the user
CleanupOrphanedPromptsCommand ==
    /\ Running = {}
    /\ promptsDir' = cleanupOrphanedPrompts(promptsDir, prompts, mirror,
                                            repositoryConfigs, platform)
    /\ refresh
    /\ op' = [name |-> "cleanupOrphanedPrompts", dirBefore |-> promptsDir]
    /\ UNCHANGED <<cfgVars, remote, mirror, pass, timers, lost>>

\* PromptCommandManager.toggleSelection on record k of the catalog;
\* deleteFails: vscode.workspace.fs.delete throws
ToggleSelection(k, deleteFails) ==
    /\ k \in 1..Len(prompts)
    /\ LET promptInfo == prompts[k]
           nameToDeactivate == IF promptInfo.workspaceName # <<>>
                               THEN promptInfo.workspaceName ELSE promptInfo.name
           noUrl == ~promptInfo.active /\ promptInfo.repositoryUrl = NoUrl
       IN \E toggled \in {toggleSelection(prompts, activePrompts, k)} :
          \E reverted \in {toggleSelection(toggled.prompts, toggled.activePrompts, k)} :
          \* the catch of the failed operation reverts and rethrows, the
          \* outer catch toggles the record once more
          \E caught \in {toggleSelection(reverted.prompts, reverted.activePrompts, k)} :
          \E done \in {IF promptInfo.active
                       THEN deactivatePrompt(promptsDir, mirror, platform,
                                             nameToDeactivate, deleteFails)
                       ELSE activatePrompt(promptsDir, mirror, repositoryConfigs,
                                           platform, symlinkPermitted, promptInfo.name,
                                           TRUE, promptInfo.repositoryUrl)} :
          \E after \in {IF noUrl THEN reverted ELSE IF done.ok THEN toggled ELSE caught} :
          /\ promptsDir' = IF noUrl THEN promptsDir ELSE done.dir
          /\ activePrompts' = after.activePrompts
          /\ IF ~noUrl /\ done.ok
             THEN \* treeProvider.refresh(): no load is in progress
                  isLoading' = TRUE /\ prompts' = <<>>
             ELSE isLoading' = isLoading /\ prompts' = after.prompts
          /\ op' = [name |-> "toggleSelection", k |-> k,
                    ok |-> ~noUrl /\ done.ok,
                    hasUrl |-> promptInfo.repositoryUrl # NoUrl,
                    wasActive |-> promptInfo.active,
                    wasSelected |-> promptInfo.path \in activePrompts,
                    isActive |-> after.prompts[k].active,
                    isSelected |-> promptInfo.path \in after.activePrompts,
                    dirBefore |-> promptsDir]
    /\ lost' = NoEntry
    /\ UNCHANGED <<cfgVars, remote, mirror, pass, timers>>

\* mirrors in which the repositories of S hold x.prompt.md and nothing else
MirrorsHoldingX(S) ==
    {[u \in Urls |-> [f \in FileNames |-> IF f = XName /\ u \in T THEN 1 ELSE 0]]
        : T \in SUBSET S}

\* the names x.prompt.md can be projected under
XNames == {n \in WorkspaceNames : n[1] = "x"}

Quiet ==
    /\ remote = <<>>
    /\ prompts = <<>>
    /\ activePrompts = {}
    /\ isLoading = FALSE
    /\ pass = <<>>
    /\ timers = {}
    /\ lost = NoEntry
    /\ op = NoOp

\* Activation and deactivation of x.prompt.md of two repositories with
\* different identifiers, on every platform, with out-of-band changes.
ActUrls == {UrlAB_C, UrlO_R}

InitAct ==
    /\ repositoryConfigs \in {q \in Configs :
            \A i \in 1..Len(q) : q[i].url \in ActUrls /\ q[i].branch = "main"}
    /\ \E p \in Platforms : platform = p.platform /\ symlinkPermitted = p.permitted
    /\ mirror \in MirrorsHoldingX(ActUrls)
    /\ promptsDir = EmptyDir
    /\ Quiet

NextAct ==
    \/ \E u \in ActUrls, hasUrl \in BOOLEAN : ActivatePrompt(XName, hasUrl, u)
    \/ \E n \in XNames, deleteFails \in BOOLEAN : DeactivatePrompt(n, deleteFails)
    \/ UserWritesFile(XName, 1)
    \/ \E n \in XNames : UserDeletesEntry(n)

SpecAct == InitAct /\ [][NextAct]_vars

\* Name resolution on every configuration (repositories with the same
\* identifier, one repository listed for two branches) and every mirror.
InitNames ==
    /\ repositoryConfigs \in Configs
    /\ platform = "linux" /\ symlinkPermitted = TRUE
    /\ mirror \in MirrorsHoldingX(Urls)
    /\ promptsDir = EmptyDir
    /\ Quiet

NextNames ==
    \/ \E u \in Urls : ActivatePrompt(XName, TRUE, u)
    \/ \E n \in XNames : DeactivatePrompt(n, FALSE)

SpecNames == InitNames /\ [][NextNames]_vars


-----------------------------------------------------------------------------
(* Sync passes one after the other, with provider failures, over           *)
(* repositories whose trees may be empty, unmatched, or hold one base name *)
(* in two directories.                                                     *)

SyncEntries == {RepoConfig(UrlO_R, "main"), RepoConfig(UrlAB_C, "main")}

Trees ==
    {<<>>, <<TreeItem("docs/", XName, 1)>>, <<TreeItem("prompts/", XName, 1)>>}
        \cup {<<TreeItem("prompts/", XName, 1), TreeItem("instructions/", XName, c)>>
                : c \in Contents \ {1}}
        \cup {<<TreeItem("prompts/", XName, 1), TreeItem("prompts/", YName, 1)>>}

AllOutcomes == UNION {Outcomes(t) : t \in Trees}

\* the pass-related state before the first pass
NoPassYet ==
    /\ pass = NoPasses
    /\ timers = {}
    /\ lost = NoEntry
    /\ op = NoOp

InitSync ==
    /\ repositoryConfigs \in {q \in Configs :
            /\ \A i \in 1..Len(q) : q[i] \in SyncEntries
            /\ q[1] = RepoConfig(UrlO_R, "main")}
    /\ platform = "linux" /\ symlinkPermitted = TRUE
    /\ remote \in {r \in [ConfigEntries -> Trees] :
            \A e \in ConfigEntries :
                (\A i \in 1..Len(repositoryConfigs) : repositoryConfigs[i] # e)
                    => r[e] = <<>>}
    /\ mirror = EmptyMirror
    /\ promptsDir = EmptyDir
    /\ prompts = <<>> /\ activePrompts = {} /\ isLoading = FALSE
    /\ NoPassYet

NextSync ==
    \/ Running = {} /\ ~isLoading /\ ManualSync
    \/ \E id \in Passes, outcome \in AllOutcomes : SyncRepository(id, outcome)
    \/ \E id \in Passes : RecreateActivePromptSymlinks(id)
    \/ \E id \in Passes : CleanupOrphanedPrompts(id)
    \/ \E id \in Passes : FinishSync(id)
    \/ LoadPromptsEnd
    \/ \E u \in ConfiguredUrls(repositoryConfigs) :
            Running = {} /\ promptsDir = EmptyDir /\ ActivatePrompt(XName, TRUE, u)

SpecSync == InitSync /\ [][NextSync]_vars

\* Triggers of syncNow arriving at any time: the command, the startup
\* timeout, the periodic timer, a configuration change.
InitSched ==
    /\ repositoryConfigs = <<RepoConfig(UrlO_R, "main")>>
    /\ platform = "linux" /\ symlinkPermitted = TRUE
    /\ remote = [e \in ConfigEntries |->
                    IF e = RepoConfig(UrlO_R, "main")
                    THEN <<TreeItem("prompts/", XName, 1)>> ELSE <<>>]
    /\ mirror = EmptyMirror
    /\ promptsDir = EmptyDir
    /\ prompts = <<>> /\ activePrompts = {} /\ isLoading = FALSE
    /\ pass = NoPasses
    /\ timers = {"startup", "periodic"}
    /\ lost = NoEntry
    /\ op = NoOp

NextSched ==
    \/ ManualSync
    \/ \E t \in {"startup", "periodic"} : TimerFires(t)
    \/ ConfigurationChanged
    \/ \E id \in Passes : SyncRepository(id, Outcome("ok", 0))
    \/ \E id \in Passes : RecreateActivePromptSymlinks(id)
    \/ \E id \in Passes : CleanupOrphanedPrompts(id)
    \/ \E id \in Passes : FinishSync(id)
    \/ LoadPromptsEnd

SpecSched == InitSched /\ [][NextSched]_vars

\* The prompts view in use: toggles, refreshes and out-of-band edits of the
\* activation directory, with sync passes one at a time.  The mirror holds
\* what the last pass fetched and the catalog is loaded.
UiConfigs ==
    {<<RepoConfig(UrlO_R, "main")>>,
     <<RepoConfig(UrlO_R, "main"), RepoConfig(UrlAB_C, "main")>>}

InitUi ==
    /\ repositoryConfigs \in UiConfigs
    /\ \E p \in Platforms : platform = p.platform /\ symlinkPermitted = p.permitted
    /\ remote = [e \in ConfigEntries |->
                    IF \E i \in 1..Len(repositoryConfigs) : repositoryConfigs[i] = e
                    THEN <<TreeItem("prompts/", XName, 1)>> ELSE <<>>]
    /\ mirror = [u \in Urls |-> [f \in FileNames |->
                    IF f = XName /\ u \in ConfiguredUrls(repositoryConfigs)
                    THEN 1 ELSE 0]]
    /\ promptsDir = EmptyDir
    /\ prompts = loadPrompts(promptsDir, mirror, repositoryConfigs, platform)
    /\ activePrompts = {}
    /\ isLoading = FALSE
    /\ NoPassYet

NextUi ==
    \/ \E k \in 1..MaxRepos + 1, deleteFails \in BOOLEAN :
            Running = {} /\ ToggleSelection(k, deleteFails)
    \/ Refresh
    \/ LoadPromptsEnd
    \/ \E n \in XNames : UserDeletesProjection(n)
    \/ Running = {} /\ promptsDir[YName].kind = "none" /\ UserWritesFile(YName, 1)
    \/ Running = {} /\ ~isLoading /\ ManualSync
    \/ \E id \in Passes : SyncRepository(id, Outcome("ok", 0))
    \/ \E id \in Passes : RecreateActivePromptSymlinks(id)
    \/ \E id \in Passes : CleanupOrphanedPrompts(id)
    \/ \E id \in Passes : FinishSync(id)

SpecUi == InitUi /\ [][NextUi]_vars

\* Drift: the activation directory holds one symlink left over from another
\* storage location, <old-root>/repos/<directory>/<file>, or pointing
\* somewhere else altogether; the mirror is at its current location.  The
\* directory is the slug of the repository or the URL with "/" written as
\* "_", the form extractRepositoryUrlFromTargetPath decodes.
StaleTargets(u) ==
    {MirrorPath("stale", encodeRepositorySlug(u), XName),
     MirrorPath("stale", UnderscoreSlug(u), XName),
     MirrorPath("foreign", encodeRepositorySlug(u), XName)}

InitDrift ==
    /\ repositoryConfigs \in UiConfigs
    /\ \E p \in Platforms : platform = p.platform /\ symlinkPermitted = p.permitted
    /\ remote = [e \in ConfigEntries |->
                    IF \E i \in 1..Len(repositoryConfigs) : repositoryConfigs[i] = e
                    THEN <<TreeItem("prompts/", XName, 1)>> ELSE <<>>]
    /\ mirror = [u \in Urls |-> [f \in FileNames |->
                    IF f = XName /\ u \in ConfiguredUrls(repositoryConfigs)
                    THEN 1 ELSE 0]]
    /\ \E u \in ConfiguredUrls(repositoryConfigs) : \E target \in StaleTargets(u) :
            promptsDir = [EmptyDir EXCEPT
                ![getUniqueWorkspaceName(XName, u, repositoryConfigs, mirror)]
                    = Symlink(target)]
    /\ prompts = loadPrompts(promptsDir, mirror, repositoryConfigs, platform)
    /\ activePrompts = {}
    /\ isLoading = FALSE
    /\ NoPassYet

NextDrift ==
    \/ Running = {} /\ ~isLoading /\ ManualSync
    \/ \E id \in Passes : SyncRepository(id, Outcome("ok", 0))
    \/ \E id \in Passes : RecreateActivePromptSymlinks(id)
    \/ \E id \in Passes : CleanupOrphanedPrompts(id)
    \/ \E id \in Passes : FinishSync(id)
    \/ LoadPromptsEnd
    \/ \E k \in 1..MaxRepos + 1 : Running = {} /\ ToggleSelection(k, FALSE)

SpecDrift == InitDrift /\ [][NextDrift]_vars

\* The life of the mirror: passes one at a time over two repositories whose
\* trees change between passes (files change, disappear, come back), a
\* repository being removed from the configuration, and toggles.
ChangedTrees ==
    {<<>>,
     <<TreeItem("prompts/", XName, 1)>>,
     <<TreeItem("prompts/", XName, 2)>>,
     <<TreeItem("prompts/", XName, 2), TreeItem("prompts/", YName, 1)>>}

InitMirror ==
    /\ repositoryConfigs = <<RepoConfig(UrlO_R, "main"), RepoConfig(UrlAB_C, "main")>>
    /\ \E p \in Platforms : platform = p.platform /\ symlinkPermitted = p.permitted
    /\ remote = [e \in ConfigEntries |->
                    IF e = RepoConfig(UrlO_R, "main")
                    THEN <<TreeItem("prompts/", XName, 1), TreeItem("prompts/", YName, 1)>>
                    ELSE IF e = RepoConfig(UrlAB_C, "main")
                    THEN <<TreeItem("prompts/", XName, 1)>>
                    ELSE <<>>]
    /\ mirror = EmptyMirror
    /\ promptsDir = EmptyDir
    /\ prompts = <<>> /\ activePrompts = {} /\ isLoading = FALSE
    /\ NoPassYet

NextMirror ==
    \/ Running = {} /\ ~isLoading /\ ManualSync
    \/ \E id \in Passes : SyncRepository(id, Outcome("ok", 0))
    \/ \E id \in Passes : RecreateActivePromptSymlinks(id)
    \/ \E id \in Passes : CleanupOrphanedPrompts(id)
    \/ \E id \in Passes : FinishSync(id)
    \/ LoadPromptsEnd
    \/ \E tree \in ChangedTrees :
            ~isLoading /\ RemoteChanges(RepoConfig(UrlO_R, "main"), tree)
    \/ \E i \in 1..MaxRepos : ~isLoading /\ RepositoryRemoved(i)
    \/ \E k \in 1..2 : Running = {} /\ ToggleSelection(k, FALSE)

SpecMirror == InitMirror /\ [][NextMirror]_vars

\* Cleanup: the prompts view in use while the user also writes plain files
\* into the activation directory, under the name of a mirrored file
\* (x.prompt.md) or not (y.md); passes one at a time and the cleanup command.
NextCleanup ==
    \/ \E k \in 1..MaxRepos + 2 : Running = {} /\ ToggleSelection(k, FALSE)
    \/ LoadPromptsEnd
    \/ \E n \in FileNames : Running = {} /\ UserWritesFile(n, 1)
    \/ Running = {} /\ ~isLoading /\ ManualSync
    \/ \E id \in Passes : SyncRepository(id, Outcome("ok", 0))
    \/ \E id \in Passes : RecreateActivePromptSymlinks(id)
    \/ \E id \in Passes : CleanupOrphanedPrompts(id)
    \/ \E id \in Passes : FinishSync(id)
    \/ CleanupOrphanedPromptsCommand

SpecCleanup == InitUi /\ [][NextCleanup]_vars

\* Authentication: passes one at a time over one or two repositories whose
\* provider may be authenticated at once, after the notification, after the
\* request, or not at all, and may then fail on the tree or on a file; the
\* remote file changes between passes and the prompts view is in use.
AuthTrees == {<<TreeItem("prompts/", XName, c)>> : c \in Contents}

AuthOutcomes == UNION {AnsweredOutcomes(t) : t \in AuthTrees}

InitAuth ==
    /\ repositoryConfigs \in UiConfigs
    /\ platform = "linux" /\ symlinkPermitted = TRUE
    /\ remote = [e \in ConfigEntries |->
                    IF \E i \in 1..Len(repositoryConfigs) : repositoryConfigs[i] = e
                    THEN <<TreeItem("prompts/", XName, 1)>> ELSE <<>>]
    /\ mirror = EmptyMirror
    /\ promptsDir = EmptyDir
    /\ prompts = <<>> /\ activePrompts = {} /\ isLoading = FALSE
    /\ NoPassYet

NextAuth ==
    \/ Running = {} /\ ~isLoading /\ ManualSync
    \/ \E id \in Passes, outcome \in AuthOutcomes : SyncRepository(id, outcome)
    \/ \E id \in Passes : RecreateActivePromptSymlinks(id)
    \/ \E id \in Passes : CleanupOrphanedPrompts(id)
    \/ \E id \in Passes : FinishSync(id)
    \/ LoadPromptsEnd
    \/ \E tree \in AuthTrees :
            ~isLoading /\ RemoteChanges(RepoConfig(UrlO_R, "main"), tree)
    \/ \E k \in 1..MaxRepos : Running = {} /\ ToggleSelection(k, FALSE)

SpecAuth == InitAuth /\ [][NextAuth]_vars

\* Write failures: passes one at a time over one or two repositories with
\* two files each, where the write of one file into the mirror may fail; the
\* files of the first repository change between passes, the prompts view is
\* in use.
WriteTrees ==
    {<<TreeItem("prompts/", XName, c), TreeItem("prompts/", YName, c)>>
        : c \in Contents}

WriteOutcomes == {Outcome("ok", 0)} \cup UNION {WriteFailures(t) : t \in WriteTrees}

InitWrite ==
    /\ repositoryConfigs \in UiConfigs
    /\ platform = "linux" /\ symlinkPermitted = TRUE
    /\ remote = [e \in ConfigEntries |->
                    IF \E i \in 1..Len(repositoryConfigs) : repositoryConfigs[i] = e
                    THEN <<TreeItem("prompts/", XName, 1), TreeItem("prompts/", YName, 1)>>
                    ELSE <<>>]
    /\ mirror = EmptyMirror
    /\ promptsDir = EmptyDir
    /\ prompts = <<>> /\ activePrompts = {} /\ isLoading = FALSE
    /\ NoPassYet

NextWrite ==
    \/ Running = {} /\ ~isLoading /\ ManualSync
    \/ \E id \in Passes, outcome \in WriteOutcomes : SyncRepository(id, outcome)
    \/ \E id \in Passes : RecreateActivePromptSymlinks(id)
    \/ \E id \in Passes : CleanupOrphanedPrompts(id)
    \/ \E id \in Passes : FinishSync(id)
    \/ LoadPromptsEnd
    \/ \E tree \in WriteTrees :
            ~isLoading /\ RemoteChanges(RepoConfig(UrlO_R, "main"), tree)
    \/ \E k \in 1..MaxRepos : Running = {} /\ ToggleSelection(k, FALSE)

SpecWrite == InitWrite /\ [][NextWrite]_vars





-----------------------------------------------------------------------------
(* Properties of activation and name resolution.                           *)

\* the last two operations were a successful activatePrompt and a successful
\* deactivatePrompt of the workspace name it returned
RoundTripDone ==
    /\ op.name = "deactivatePrompt" /\ op.ok
    /\ op.activated.name = "activatePrompt" /\ op.activated.ok
    /\ op.promptPath = op.activated.workspaceName

\* C3 as stated: activate then deactivate of the returned name leaves the
\* activation directory as it was before activate, in every state of the
\* directory.
C3_RoundTripAnyDirectory ==
    RoundTripDone => promptsDir = op.activated.dirBefore

\* C3, amended: activate then deactivate of the returned name leaves the
\* activation directory as it was before activate, provided no entry existed
\* under that name before activate.
C3_RoundTripFreeName ==
    (RoundTripDone /\ op.activated.dirBefore[op.promptPath].kind = "none")
        => promptsDir = op.activated.dirBefore

\* a round trip on a free name, through a symlink or through a plain copy
C3_Witness ==
    /\ RoundTripDone
    /\ op.activated.dirBefore[op.promptPath].kind = "none"
    /\ op.dirBefore[op.promptPath].kind \in {"symlink", "file"}
    /\ promptsDir[op.promptPath].kind = "none"

\* the repositories of the configuration whose mirror holds fileName
ReposHolding(fileName) ==
    {u \in ConfiguredUrls(repositoryConfigs) :
        mirrorFileExists(mirror, getRepositoryPath(u, fileName))}

\* activatePrompt has just returned a workspace name for a configured
\* repository
Activated ==
    /\ op.name = "activatePrompt" /\ op.ok
    /\ op.repositoryUrl \in ConfiguredUrls(repositoryConfigs)

\* C5: when two or more configured repositories hold f, the workspace name
\* activate returned for one of them differs from the bare name and from
\* the name resolved for every other one.
C5_CollidingNamesDiffer ==
    (Activated /\ Cardinality(ReposHolding(op.promptPath)) >= 2)
        => /\ op.workspaceName # op.promptPath
           /\ \A v \in ReposHolding(op.promptPath) \ {op.repositoryUrl} :
                  getUniqueWorkspaceName(op.promptPath, v, repositoryConfigs, mirror)
                      # op.workspaceName

\* C6: when exactly one configured repository holds f, activate returns the
\* bare name f.
C6_SingleRepositoryBareName ==
    (Activated /\ ReposHolding(op.promptPath) = {op.repositoryUrl})
        => op.workspaceName = op.promptPath

\* C8: after activate returned a workspace name, the entry of that name is
\* the symlink to the mirror file of (R, f), or, where symlinks are denied,
\* a plain file with the mirror content of (R, f).
C8_ActivatePostcondition ==
    (op.name = "activatePrompt" /\ op.ok)
        => LET e == promptsDir[op.workspaceName]
               src == getRepositoryPath(op.repositoryUrl, op.promptPath)
           IN \/ e = Symlink(src)
              \/ /\ ~symlinkPermitted
                 /\ e.kind = "file"
                 /\ e.content = MirrorContent(mirror, src)

\* an activation that replaced a different entry of the same name
C8_Witness ==
    /\ op.name = "activatePrompt" /\ op.ok
    /\ op.dirBefore[op.workspaceName].kind # "none"
    /\ op.dirBefore[op.workspaceName] # promptsDir[op.workspaceName]

-----------------------------------------------------------------------------
(* Properties of the sync pass.                                            *)

\* C1 as stated: at most one sync pass is in progress at any time.
C1_AtMostOnePass ==
    Cardinality(Running) <= 1

\* a pass that ran after a pass, both without a provider failure, with no
\* change of the trees and no other operation in between
SecondPass ==
    op.name = "syncNow" /\ op.follows /\ AllFetched(op.results)

\* C2 as stated: such a second pass reports no updated item for any
\* repository and leaves the activation directory as it was.
C2_SecondPassUpdatesNothing ==
    SecondPass
        => /\ op.itemsUpdated = 0
           /\ \A i \in 1..Len(op.results) : op.results[i].itemsUpdated = 0
           /\ promptsDir = op.dirBefore

\* C9: a pass records one result per configured repository, in configured
\* order; every repository the provider served is written to the mirror
\* whatever happened to the others; the overall success is that of every
\* result.
C9_PerRepositoryIsolation ==
    /\ \A id \in Running :
          /\ Len(pass[id].results) = pass[id].i - 1
          /\ \A j \in 1..Len(pass[id].results) :
                pass[id].results[j].repository = repositoryConfigs[j].url
    /\ op.name = "syncNow"
        => /\ Len(op.results) = Len(repositoryConfigs)
           /\ \A i \in 1..Len(op.results) :
                /\ op.results[i].repository = repositoryConfigs[i].url
                /\ LET files == filterRelevantFiles(remote[repositoryConfigs[i]])
                   IN (op.results[i].fetched /\ Len(files) > 0)
                        => /\ op.results[i].success
                           /\ \A k \in 1..Len(files) :
                                mirrorFileExists(mirror,
                                    getRepositoryPath(repositoryConfigs[i].url,
                                                      getBasename(files[k].path)))
           /\ op.success <=> \A i \in 1..Len(op.results) : op.results[i].success

\* a pass whose first repository failed and whose second was written
C9_Witness ==
    /\ op.name = "syncNow"
    /\ Len(op.results) = 2
    /\ ~op.results[1].success
    /\ op.results[2].success /\ op.results[2].itemsUpdated > 0
    /\ mirrorFileExists(mirror, getRepositoryPath(repositoryConfigs[2].url, XName))
    /\ ~op.success

-----------------------------------------------------------------------------
(* Properties of the prompts view.                                         *)

\* a pass has finished that started after the projection op.lost.name of an
\* active file was deleted out-of-band
PassAfterLoss == op.name = "syncNow" /\ op.lost.kind = "lost"

\* C4: after a completed pass that follows the out-of-band deletion of an
\* active file's projection, the activation directory again has an entry of
\* that name which reads as the mirror content it read as before
C4_SelfHeal ==
    PassAfterLoss =>
        /\ fileExists(mirror, promptsDir[op.lost.name])
        /\ Resolve(mirror, promptsDir[op.lost.name]) = Resolve(mirror, op.lost.entry)

\* C10: a toggle whose activatePrompt or deactivatePrompt failed, or that
\* found no repository URL, leaves the record's active flag and its
\* membership in activePrompts as they were before the toggle
C10_ToggleReverted ==
    (op.name = "toggleSelection" /\ ~op.ok) =>
        /\ op.isActive = op.wasActive
        /\ op.isSelected = op.wasSelected

-----------------------------------------------------------------------------
(* Properties of drift repair.                                             *)

\* the entry was, when the last pass started, a symlink into another storage
\* location whose target <old-root>/repos/<slug(R)>/<f> names a file the
\* current mirror of R holds
StaleLinkOf(e) ==
    /\ e.kind = "symlink"
    /\ e.target.root = "stale"
    /\ \E u \in Urls : e.target.slug = encodeRepositorySlug(u)
    /\ mirrorFileExists(mirror,
            getRepositoryPath(decodeRepositorySlug(e.target.slug), e.target.file))

\* C7: after a pass, every entry that was such a stale link is a symlink of
\* the same name to the current mirror path of the same repository and file
C7_DriftRepaired ==
    (op.name = "syncNow" /\ Running = {}) =>
        \A n \in DOMAIN promptsDir :
            StaleLinkOf(op.dirBefore[n]) =>
                promptsDir[n] = Symlink(getRepositoryPath(
                    decodeRepositorySlug(op.dirBefore[n].target.slug),
                    op.dirBefore[n].target.file))

\* the entry named n is a symlink whose target is absent and which
\* fixBrokenSymlinks cannot attribute: its target has no "repos" segment, or
\* the mirror of the repository recovered from it holds no file named n
Unattributable(dir, n) ==
    /\ dir[n].kind = "symlink"
    /\ ~fileExists(mirror, dir[n])
    /\ \/ ~HasReposSegment(dir[n].target)
       \/ ~mirrorFileExists(mirror,
              getRepositoryPath(extractRepositoryUrlFromTargetPath(dir[n].target), n))

\* C11: no step of a sync pass deletes or replaces a symlink whose target is
\* absent and which cannot be attributed to a mirror
C11_UnattributableLinkKept ==
    [][Running # {} =>
        \A n \in DOMAIN promptsDir :
            Unattributable(promptsDir, n) => promptsDir'[n] = promptsDir[n]]_vars

\* a pass has finished over a directory that held such a symlink, which is
\* still there
C11_Witness ==
    /\ op.name = "syncNow" /\ Running = {}
    /\ \E n \in DOMAIN promptsDir :
            Unattributable(op.dirBefore, n) /\ promptsDir[n] = op.dirBefore[n]

-----------------------------------------------------------------------------
(* Properties of the mirror.                                               *)

\* C12: no step removes a file from under the mirror root
C12_MirrorFilesKept ==
    [][\A u \in Urls, f \in FileNames : mirror[u][f] # 0 => mirror'[u][f] # 0]_vars

\* a pass has finished while the mirror holds a file of a repository that is
\* no longer configured and a file that its repository's tree no longer has
C12_Witness ==
    /\ op.name = "syncNow" /\ Running = {}
    /\ \E u \in Urls \ ConfiguredUrls(repositoryConfigs) : mirror[u][XName] # 0
    /\ \E i \in 1..Len(repositoryConfigs) :
            /\ mirror[repositoryConfigs[i].url][YName] # 0
            /\ \A k \in 1..Len(remote[repositoryConfigs[i]]) :
                    getBasename(remote[repositoryConfigs[i]][k].path) # YName


\* the tree of a configured entry holds fileName in a synchronised directory
Publishes(entry, fileName) ==
    \E k \in 1..Len(filterRelevantFiles(remote[entry])) :
        getBasename(filterRelevantFiles(remote[entry])[k].path) = fileName

\* the records of the catalog for fileName, in load order
RecordsFor(fileName) == SelectSeq(prompts, LAMBDA p : p.name = fileName)

\* a pass in which the provider served every request has finished, and so
\* has the load it started
SyncedAndLoaded ==
    /\ op.name = "syncNow"
    /\ AllFetched(op.results)
    /\ Running = {}
    /\ ~isLoading

C14_TwoRepositoryCatalog ==
    (/\ SyncedAndLoaded
     /\ Len(repositoryConfigs) = 2
     /\ Publishes(repositoryConfigs[1], XName)
     /\ Publishes(repositoryConfigs[2], XName)
     /\ promptsDir = EmptyDir)
        => /\ Len(RecordsFor(XName)) = 2
           /\ \A i \in 1..2 : \E k \in 1..Len(RecordsFor(XName)) :
                /\ RecordsFor(XName)[k].repositoryUrl = repositoryConfigs[i].url
                /\ RecordsFor(XName)[k].workspaceName =
                        <<"x", "@">> \o getRepositoryIdentifier(repositoryConfigs[i].url)
                            \o <<".", "prompt", ".", "md">>


\* the entry is a projection of fileName of repositoryUrl: a symlink to its
\* mirror file, or a copy made by the copy fallback under its workspace name
IsProjectionOf(entry, repositoryUrl, fileName) ==
    \/ entry.kind = "symlink" /\ entry.target = getRepositoryPath(repositoryUrl, fileName)
    \/ IF entry.kind = "file" THEN entry.by = "copy" ELSE FALSE

\* C15: when a step of a sync pass changes the mirror content of a file that
\* is active (here: of the only repository whose mirror holds a file of that
\* name, so that the projection under its workspace name is its own), the
\* projection yields the new content once the repository has been processed.
C15_ChangePropagates ==
    [][\A u \in Urls, f \in FileNames :
        (/\ mirror[u][f] # 0
         /\ mirror'[u][f] # mirror[u][f]
         /\ \A v \in Urls \ {u} : mirror[v][f] = 0
         /\ IsProjectionOf(
                promptsDir[getUniqueWorkspaceName(f, u, repositoryConfigs, mirror)], u, f))
            => Resolve(mirror',
                       promptsDir'[getUniqueWorkspaceName(f, u, repositoryConfigs, mirror)])
                    = mirror'[u][f]]_vars


\* C16: deactivatePrompt never deletes a plain file that was not created by
\* the copy fallback of activatePrompt: a user-authored plain file of the
\* deactivated name is left in place on every platform.
C16_DeactivateKeepsUserFiles ==
    [][op'.name = "deactivatePrompt"
        => \A n \in DOMAIN promptsDir :
            (IF promptsDir[n].kind = "file" THEN promptsDir[n].by = "user" ELSE FALSE)
                => promptsDir'[n] = promptsDir[n]]_vars


\* a step that runs cleanupOrphanedPrompts: the command, or the step of a pass
CleanupStep ==
    \/ op' # op /\ op'.name = "cleanupOrphanedPrompts"
    \/ \E id \in Passes : pass[id].pc = "cleanup" /\ pass'[id].pc = "finish"

\* C17: cleanupOrphanedPrompts removes only plain files whose name is the
\* name of a file in the mirror of a configured repository; symlinks and
\* plain files matching no mirrored file stay as they are.
C17_CleanupRemovesOnlyMirroredCopies ==
    [][CleanupStep
        => \A n \in DOMAIN promptsDir :
            promptsDir'[n] # promptsDir[n]
                => /\ promptsDir[n].kind = "file"
                   /\ promptsDir'[n] = NoEntry
                   /\ \E i \in 1..Len(repositoryConfigs) :
                        mirror[repositoryConfigs[i].url][n] # 0]_vars

\* the command has removed a plain file and left a symlink and an unmatched
\* plain file where they were
C17_Witness ==
    /\ op.name = "cleanupOrphanedPrompts"
    /\ \E n \in DOMAIN promptsDir :
            op.dirBefore[n].kind = "file" /\ promptsDir[n].kind = "none"
    /\ \E n \in DOMAIN promptsDir :
            op.dirBefore[n].kind = "symlink" /\ promptsDir[n] = op.dirBefore[n]
    /\ op.dirBefore[YName].kind = "file" /\ promptsDir[YName] = op.dirBefore[YName]


\* the files of the tree of entry that syncFiles goes through, in order
RelevantFiles(entry) == filterRelevantFiles(remote[entry])

\* the content of fileName in the mirror after the files before position
\* failAt have been written: that of the last of them with this base name
WrittenBefore(mir, entry, failAt, fileName) ==
    LET before == {k \in 1..(failAt - 1) :
                        getBasename(RelevantFiles(entry)[k].path) = fileName}
    IN IF before = {} THEN mir[entry.url][fileName]
       ELSE RelevantFiles(entry)[CHOOSE k \in before : \A j \in before : j <= k].content

\* C18: when getFileContent fails for a matched file of a repository, that
\* file and the files after it are not written in this pass, the files
\* before it are (and stay) written, the other mirrors are untouched, and the
\* pass goes on to the next repository.
C18_ContentFailureAbortsRepository ==
    [][\A id \in Passes : \A outcome \in AllOutcomes :
        (outcome.kind = "contentFailed" /\ SyncRepository(id, outcome))
            => /\ \A f \in FileNames :
                    mirror'[repositoryConfigs[pass[id].i].url][f] =
                        WrittenBefore(mirror, repositoryConfigs[pass[id].i],
                                      outcome.failAt, f)
               /\ \A u \in Urls \ {repositoryConfigs[pass[id].i].url} :
                    mirror'[u] = mirror[u]
               /\ pass'[id].i = pass[id].i + 1
               /\ pass'[id].pc = IF pass[id].i < Len(repositoryConfigs)
                                 THEN "repos" ELSE "recreate"]_vars

\* the first of two repositories was aborted at its second file: x.prompt.md
\* is in its mirror, y.md is not, and the pass is at the second repository
C18_Witness ==
    \E id \in Passes :
        /\ pass[id].pc = "repos" /\ pass[id].i = 2
        /\ ~pass[id].results[1].fetched
        /\ pass[id].results[1].itemsUpdated = 1
        /\ Publishes(repositoryConfigs[1], YName)
        /\ mirror[repositoryConfigs[1].url][XName] # 0
        /\ mirror[repositoryConfigs[1].url][YName] = 0


\* C19: when getFileContent fails for a matched file of a repository, the
\* entry of that repository in the results of the pass has success = false,
\* and so the overall success of the pass is false.
C19_ContentFailureRecorded ==
    [][\A id \in Passes : \A outcome \in AllOutcomes :
        (outcome.kind = "contentFailed" /\ SyncRepository(id, outcome))
            => /\ ~pass'[id].results[pass[id].i].success
               /\ ~overallSuccess(pass'[id].results)]_vars


\* the positions of call in a sequence of calls
Positions(calls, call) == {k \in 1..Len(calls) : calls[k] = call}

C21_NoRelevantFilesIsFailure ==
    [][\A id \in Passes : \A outcome \in AllOutcomes :
        (/\ outcome.kind = "ok"
         /\ SyncRepository(id, outcome)
         /\ Len(RelevantFiles(repositoryConfigs[pass[id].i])) = 0)
            => /\ ~pass'[id].results[pass[id].i].success
               /\ ~overallSuccess(pass'[id].results)
               /\ mirror' = mirror
               /\ pass'[id].i = pass[id].i + 1
               /\ pass'[id].pc = IF pass[id].i < Len(repositoryConfigs)
                                 THEN "repos" ELSE "recreate"]_vars

\* the first repository had no relevant file and was recorded as failed, the
\* second one has been synchronised and the pass is over
C21_Witness ==
    /\ op.name = "syncNow"
    /\ Len(op.results) = 2
    /\ op.results[1].fetched /\ ~op.results[1].success
    /\ Len(RelevantFiles(repositoryConfigs[1])) = 0
    /\ op.results[2].success /\ op.results[2].itemsUpdated > 0


\* the positions of the files of entry other than position k whose content
\* differs from what the mirror holds (base names are distinct in the tree)
ChangedExcept(mir, entry, k) ==
    {j \in 1..Len(RelevantFiles(entry)) \ {k} :
        mir[entry.url][getBasename(RelevantFiles(entry)[j].path)]
            # RelevantFiles(entry)[j].content}

\* C22: when the write of one fetched file into the mirror fails, that file
\* is not counted in itemsUpdated and the entry under its workspace name is
\* not touched, the repository is recorded as a success, and the other files
\* of the repository are written and counted.
C22_WriteFailureSkipsOneFile ==
    [][\A id \in Passes : \A outcome \in WriteOutcomes :
        (outcome.kind = "writeFailed" /\ SyncRepository(id, outcome))
            => LET entry == repositoryConfigs[pass[id].i]
                   files == RelevantFiles(entry)
                   failed == getBasename(files[outcome.failAt].path)
                   others == ChangedExcept(mirror, entry, outcome.failAt)
               IN /\ pass'[id].results[pass[id].i].success
                  /\ pass'[id].results[pass[id].i].itemsUpdated = Cardinality(others)
                  /\ promptsDir'[getUniqueWorkspaceName(failed, entry.url,
                                        repositoryConfigs, mirror)]
                        = promptsDir[getUniqueWorkspaceName(failed, entry.url,
                                        repositoryConfigs, mirror)]
                  /\ \A j \in 1..Len(files) : j # outcome.failAt
                        => mirror'[entry.url][getBasename(files[j].path)]
                                = files[j].content]_vars

\* the write of the changed x.prompt.md failed while its symlink is in
\* place, y.md was written and counted, and the repository is a success
C22_Witness ==
    \E id \in Passes :
        /\ pass[id].pc # "idle"
        /\ Len(pass[id].results) = 1
        /\ ~pass[id].results[1].fetched
        /\ pass[id].results[1].success
        /\ pass[id].results[1].itemsUpdated = 1
        /\ remote[repositoryConfigs[1]][1].content # mirror[repositoryConfigs[1].url][XName]
        /\ remote[repositoryConfigs[1]][2].content = mirror[repositoryConfigs[1].url][YName]
        /\ \E n \in XNames : promptsDir[n].kind = "symlink"


\* the sum of itemsUpdated over the results of a pass
RECURSIVE SumItemsUpdated(_)
SumItemsUpdated(results) ==
    IF results = <<>> THEN 0
    ELSE results[1].itemsUpdated + SumItemsUpdated(Tail(results))

\* the positions of the files of entry that a turn with this outcome reaches
\* and finds absent from the mirror or different from the fetched content,
\* at the moment the loop gets to them
FilesChanged(mir, entry, outcome) ==
    {k \in 1..Len(RelevantFiles(entry)) :
        /\ outcome.kind = "contentFailed" => k < outcome.failAt
        /\ WrittenBefore(mir, entry, k, getBasename(RelevantFiles(entry)[k].path))
                # RelevantFiles(entry)[k].content}

C24_MirrorHoldsFetchedContent ==
    [][\A id \in Passes :
        SyncRepository(id, Outcome("ok", 0))
            => \A k \in 1..Len(RelevantFiles(repositoryConfigs[pass[id].i])) :
                mirror'[repositoryConfigs[pass[id].i].url]
                       [getBasename(RelevantFiles(repositoryConfigs[pass[id].i])[k].path)]
                    = RelevantFiles(repositoryConfigs[pass[id].i])[k].content]_vars


\* C25: where symlinks are denied, a step that runs cleanupOrphanedPrompts
\* never removes the copy that the copy fallback of an activation left in
\* the activation directory, whatever the catalog is doing.
C25_CleanupKeepsActiveCopies ==
    [][(CleanupStep /\ platform = "win32" /\ ~symlinkPermitted)
        => \A n \in DOMAIN promptsDir :
            (IF promptsDir[n].kind = "file" THEN promptsDir[n].by = "copy" ELSE FALSE)
                => promptsDir'[n] = promptsDir[n]]_vars


C27_ProjectionsUnderResolvedNames ==
    (op.name = "syncNow" /\ Running = {})
        => \A n \in DOMAIN promptsDir : \A u \in Urls : \A f \in FileNames :
            (promptsDir[n] = Symlink(getRepositoryPath(u, f)) /\ mirror[u][f] # 0)
                => n = getUniqueWorkspaceName(f, u, repositoryConfigs, mirror)


\* C28: the turn of a repository in a sync pass changes an entry of the
\* activation directory only if the entry is a symlink to a mirror file
\* whose content this turn changed; a link to the mirror file of another
\* repository keeps its target.
C28_PropagationTouchesOwnProjection ==
    [][(\E id \in Passes : pass[id].pc = "repos" /\ pass'[id] # pass[id])
        => \A n \in DOMAIN promptsDir :
            promptsDir'[n] # promptsDir[n]
                => /\ promptsDir[n].kind = "symlink"
                   /\ \E u \in Urls : \E f \in FileNames :
                        /\ promptsDir[n].target = getRepositoryPath(u, f)
                        /\ mirror'[u][f] # mirror[u][f]]_vars


\* Activation where fs.symlink can fail on every platform: beside the
\* platforms above, a non-Windows system whose activation directory lies on
\* a filesystem without symbolic links (fs.symlink fails with EPERM and the
\* copy fallback is not taken).
LinkPlatforms == Platforms \cup {[platform |-> "linux", permitted |-> FALSE]}

InitLink ==
    /\ repositoryConfigs \in {q \in Configs :
            \A i \in 1..Len(q) : q[i].url \in ActUrls /\ q[i].branch = "main"}
    /\ \E p \in LinkPlatforms : platform = p.platform /\ symlinkPermitted = p.permitted
    /\ mirror \in MirrorsHoldingX(ActUrls)
    /\ promptsDir = EmptyDir
    /\ Quiet

NextLink ==
    \/ \E u \in ActUrls, hasUrl \in BOOLEAN : ActivatePrompt(XName, hasUrl, u)
    \/ \E n \in XNames, deleteFails \in BOOLEAN : DeactivatePrompt(n, deleteFails)
    \/ UserWritesFile(XName, 1)
    \/ \E n \in XNames : UserDeletesEntry(n)

SpecLink == InitLink /\ [][NextLink]_vars

\* C29: after a failed activatePrompt the activation directory is as it was
\* before the call.
C29_FailedActivationChangesNothing ==
    (op.name = "activatePrompt" /\ ~op.ok) => promptsDir = op.dirBefore


\* C30: in a catalog that is up to date, the record of a mirrored file of a
\* repository carries the workspace name under which activatePrompt would
\* project the file (getUniqueWorkspaceName).
C30_CatalogNameIsActivationName ==
    (~isLoading /\ Running = {}
        /\ prompts = loadPrompts(promptsDir, mirror, repositoryConfigs, platform))
        => \A k \in 1..Len(prompts) :
            IF prompts[k].repositoryUrl \in Urls /\ prompts[k].name \in FileNames
            THEN mirror[prompts[k].repositoryUrl][prompts[k].name] # 0
                    => prompts[k].workspaceName
                        = getUniqueWorkspaceName(prompts[k].name, prompts[k].repositoryUrl,
                                                 repositoryConfigs, mirror)
            ELSE TRUE


-----------------------------------------------------------------------------
(* Sync passes over a GitHub and an Azure DevOps repository: the mirror    *)
(* root can hold the directory of every URL syncFiles builds.              *)

UrlAzure == AzureUrl(<<"org">>, <<"project">>, <<"repo">>)

\* the URL syncFiles builds for a configured URL
syncFilesUrlOf(repoUrl) ==
    syncFilesRepositoryUrl(getProviderName(repoUrl), parseRepositoryUrl(repoUrl).owner,
                           parseRepositoryUrl(repoUrl).repo)

StoreEntries == {RepoConfig(UrlO_R, "main"), RepoConfig(UrlAzure, "main")}

\* the URLs whose slug can name a directory of the mirror root
StoreUrls == Urls \cup {e.url : e \in StoreEntries} \cup {syncFilesUrlOf(e.url) : e \in StoreEntries}

StoreTrees ==
    {<<TreeItem("prompts/", XName, 1)>>,
     <<TreeItem("prompts/", XName, 1), TreeItem("prompts/", YName, 1)>>}

StoreOutcomes == UNION {Outcomes(t) : t \in StoreTrees}

InitStore ==
    /\ repositoryConfigs \in {q \in SeqsNoRepeat(StoreEntries, MaxRepos) :
            /\ Len(q) >= 1
            /\ \A i, j \in 1..Len(q) : i # j => q[i] # q[j]}
    /\ \E p \in Platforms : platform = p.platform /\ symlinkPermitted = p.permitted
    /\ remote \in [StoreEntries -> StoreTrees]
    /\ mirror = [u \in StoreUrls |-> [f \in FileNames |-> 0]]
    /\ promptsDir = EmptyDir
    /\ prompts = <<>> /\ activePrompts = {} /\ isLoading = FALSE
    /\ NoPassYet

NextStore ==
    \/ Running = {} /\ ~isLoading /\ ManualSync
    \/ \E id \in Passes, outcome \in StoreOutcomes : SyncRepository(id, outcome)
    \/ \E id \in Passes : RecreateActivePromptSymlinks(id)
    \/ \E id \in Passes : CleanupOrphanedPrompts(id)
    \/ \E id \in Passes : FinishSync(id)
    \/ LoadPromptsEnd

SpecStore == InitStore /\ [][NextStore]_vars

\* C31: after a pass in which the provider served every request, every file
\* a configured repository publishes lies in the mirror directory named by
\* the slug of the configured URL, where getUniqueWorkspaceName, link repair
\* and orphan cleanup look for it.
C31_MirrorDirectoryOfConfiguredUrl ==
    (op.name = "syncNow" /\ AllFetched(op.results) /\ Running = {})
        => \A i \in 1..Len(repositoryConfigs) : \A f \in FileNames :
            Publishes(repositoryConfigs[i], f)
                => mirrorFileExists(mirror, getRepositoryPath(repositoryConfigs[i].url, f))


\* C32: the slug is reversible, and from every symlink into the mirror both
\* the catalog (extractRepositoryUrlFromPath) and link repair
\* (extractRepositoryUrlFromTargetPath) recover the URL of the repository
\* whose mirror file the link points at.
C32_SlugReversible ==
    \A n \in DOMAIN promptsDir : \A u \in Urls : \A f \in FileNames :
        IF promptsDir[n].kind = "symlink"
        THEN promptsDir[n].target = getRepositoryPath(u, f)
                => /\ decodeRepositorySlug(encodeRepositorySlug(u)) = u
                   /\ extractRepositoryUrlFromPath(promptsDir[n].target) = u
                   /\ extractRepositoryUrlFromTargetPath(promptsDir[n].target) = u
        ELSE TRUE

\* record k of the catalog stands for the mirror file (u, f): it carries the
\* repository and either the file's name or the name of a symlink to it
Represents(k, u, f) ==
    /\ prompts[k].repositoryUrl = u
    /\ \/ prompts[k].name = f
       \/ promptsDir[prompts[k].name] = Symlink(getRepositoryPath(u, f))

\* C33: in a catalog that is up to date, every mirrored file is represented
\* by exactly one record, whether it is active or not, and no two records
\* share name and repositoryUrl.
C33_OneRecordPerMirroredFile ==
    (~isLoading /\ prompts = loadPrompts(promptsDir, mirror, repositoryConfigs, platform))
        => /\ \A u \in Urls : \A f \in FileNames :
                mirror[u][f] # 0
                    => Cardinality({k \in 1..Len(prompts) : Represents(k, u, f)}) = 1
           /\ \A j, k \in 1..Len(prompts) :
                (prompts[j].name = prompts[k].name
                    /\ prompts[j].repositoryUrl = prompts[k].repositoryUrl) => j = k


-----------------------------------------------------------------------------
(* The prompts view beside a user who writes files of any content into the *)
(* activation directory and deletes entries of it.                         *)

NextView ==
    \/ \E k \in 1..MaxRepos + 1 : Running = {} /\ ToggleSelection(k, FALSE)
    \/ Refresh
    \/ LoadPromptsEnd
    \/ \E c \in Contents : UserWritesFile(XName, c)
    \/ \E n \in XNames : UserDeletesEntry(n)

SpecView == InitUi /\ [][NextView]_vars

\* the entry under the workspaceName of record k is a projection of a mirror
\* file of the record's repository: a symlink to it, or on Windows a plain
\* file with the content of the mirror file of the record's name
HoldsProjectionOf(k) ==
    LET e == promptsDir[prompts[k].workspaceName]
        u == prompts[k].repositoryUrl
    IN IF u \notin Urls THEN FALSE
       ELSE IF e.kind = "symlink"
       THEN \E f \in FileNames : e.target = getRepositoryPath(u, f)
       ELSE IF e.kind = "file"
       THEN /\ platform = "win32"
            /\ prompts[k].name \in FileNames
            /\ e.content = mirror[u][prompts[k].name]
       ELSE FALSE

\* C34: in a catalog that is up to date, a record is active if and only if
\* the activation directory holds a projection of its mirror file under its
\* workspaceName.
C34_ActiveIffProjection ==
    (~isLoading /\ prompts = loadPrompts(promptsDir, mirror, repositoryConfigs, platform))
        => \A k \in 1..Len(prompts) : prompts[k].active <=> HoldsProjectionOf(k)


-----------------------------------------------------------------------------
(* filterRelevantFiles on trees of every item kind under every setting.    *)

MaxTree == 2   \* longest tree handed to the filter

\* paths as the provider may give them: under every category directory, with
\* a leading slash, with a backslash, in another case, outside the
\* categories, below another directory, with another extension
FilterPaths ==
    {<<d, "x", ".", "md">> : d \in {"agents/", "chatmodes/", "chatmode/", "instructions/",
                                    "prompts/", "prompts\\", "Prompts/", "docs/"}}
        \cup {<<"/", "prompts/", "x", ".", "md">>, <<"docs/", "prompts/", "x", ".", "md">>,
              <<"prompts/", "x", ".", "txt">>, <<"prompts/", "x", ".", "json">>,
              <<"prompts/", "md">>}

FilterItems ==
    {[type |-> t, path |-> q, content |-> 1] : t \in {"blob", "tree"}, q \in FilterPaths}

RECURSIVE SeqsUpTo(_, _)
SeqsUpTo(S, n) ==
    IF n = 0 THEN {<<>>}
    ELSE LET shorter == SeqsUpTo(S, n - 1)
         IN shorter \cup {Append(q, e) : q \in {r \in shorter : Len(r) = n - 1}, e \in S}

FilterTrees == SeqsUpTo(FilterItems, MaxTree)

\* SyncManager.filterRelevantFiles called on the tree and under the settings
\* at hand
FilterRelevantFiles ==
    /\ op.name = "getRepositoryTree"
    /\ op' = [name |-> "filterRelevantFiles", config |-> op.config, tree |-> op.tree,
              result |-> filterRelevantFilesFor(op.config, op.tree)]
    /\ UNCHANGED <<cfgVars, remote, fsVars, catVars, runVars>>

\* a tree has been retrieved under some settings
InitFilter ==
    /\ repositoryConfigs = <<RepoConfig(UrlO_R, "main")>>
    /\ platform = "linux" /\ symlinkPermitted = TRUE
    /\ mirror = EmptyMirror
    /\ promptsDir = EmptyDir
    /\ remote = <<>>
    /\ prompts = <<>> /\ activePrompts = {} /\ isLoading = FALSE
    /\ pass = <<>> /\ timers = {} /\ lost = NoEntry
    /\ \E config \in SyncTypes, tree \in FilterTrees :
            op = [name |-> "getRepositoryTree", config |-> config, tree |-> tree]

NextFilter == FilterRelevantFiles

SpecFilter == InitFilter /\ [][NextFilter]_vars

\* the directory prefixes of the enabled categories
EnabledPrefixes(config) ==
    (IF config.syncChatmode THEN {"agents/", "chatmodes/", "chatmode/"} ELSE {})
        \cup (IF config.syncInstructions THEN {"instructions/"} ELSE {})
        \cup (IF config.syncPrompt THEN {"prompts/"} ELSE {})

\* the path with backslashes written as slashes, from its first token that
\* is not a slash on
Comparable(path) ==
    LET slashed == [i \in 1..Len(path) |->
                        IF path[i] = "\\" THEN "/"
                        ELSE IF path[i] = "prompts\\" THEN "prompts/" ELSE path[i]]
        rest == {i \in 1..Len(path) : slashed[i] # "/"}
    IN IF rest = {} THEN <<>>
       ELSE SubSeq(slashed, CHOOSE i \in rest : \A j \in rest : i <= j, Len(path))

\* C35: the filter returns, in tree order, exactly the blobs whose path
\* starts with the prefix of an enabled category and ends in .md or .txt;
\* with no category enabled it returns nothing.
C35_FilterReturnsRelevantBlobs ==
    op.name = "filterRelevantFiles"
        => /\ op.result = SelectSeq(op.tree, LAMBDA item :
                    /\ item.type = "blob"
                    /\ Comparable(item.path) # <<>>
                    /\ Comparable(item.path)[1] \in EnabledPrefixes(op.config)
                    /\ Len(item.path) >= 2
                    /\ item.path[Len(item.path) - 1] = "."
                    /\ item.path[Len(item.path)] \in {"md", "txt"})
           /\ EnabledPrefixes(op.config) = {} => op.result = <<>>

\* a tree with a relevant file given with a leading slash and one given with
\* a backslash was filtered, with only the prompts category enabled
C35_Witness ==
    /\ op.name = "filterRelevantFiles"
    /\ op.config = [syncChatmode |-> FALSE, syncInstructions |-> FALSE, syncPrompt |-> TRUE]
    /\ op.tree = <<[type |-> "blob", path |-> <<"/", "prompts/", "x", ".", "md">>, content |-> 1],
                   [type |-> "blob", path |-> <<"prompts\\", "x", ".", "md">>, content |-> 1]>>
    /\ Len(op.result) = 2


-----------------------------------------------------------------------------
(* getRepositoryIdentifier on URLs of every shape.                         *)

\* host and path of a URL: GitHub and Azure DevOps repositories, complete
\* and cut short, another host with three segments, with one segment, and a
\* host alone
UrlBodies ==
    {<<"github.com", "/", "o", "/", "r">>,
     <<"github.com", "/", "o", "/", "r", "/", "tree">>,
     <<"github.com", "/", "o">>,
     <<"dev.azure.com", "/", "org", "/", "project", "/", "_git", "/", "repo">>,
     <<"dev.azure.com", "/", "org">>,
     <<"gitlab.com", "/", "group", "/", "sub", "/", "r">>,
     <<"example.com", "/", "r">>,
     <<"example.com", "/">>,
     <<"example.com">>}

IdentifierUrls ==
    {proto \o www \o body \o git :
        proto \in {<<"https://">>, <<"http://">>, <<>>},
        www \in {<<"www.">>, <<>>},
        body \in UrlBodies,
        git \in {<<".git">>, <<>>}}

\* getRepositoryIdentifier called on the URL at hand
GetRepositoryIdentifier ==
    /\ op.name = "repositoryUrl"
    /\ op' = [name |-> "getRepositoryIdentifier", url |-> op.url,
              result |-> getRepositoryIdentifier(op.url)]
    /\ UNCHANGED <<cfgVars, remote, fsVars, catVars, runVars>>

InitIdentifier ==
    /\ repositoryConfigs = <<RepoConfig(UrlO_R, "main")>>
    /\ platform = "linux" /\ symlinkPermitted = TRUE
    /\ mirror = EmptyMirror
    /\ promptsDir = EmptyDir
    /\ remote = <<>>
    /\ prompts = <<>> /\ activePrompts = {} /\ isLoading = FALSE
    /\ pass = <<>> /\ timers = {} /\ lost = NoEntry
    /\ \E url \in IdentifierUrls : op = [name |-> "repositoryUrl", url |-> url]

NextIdentifier == GetRepositoryIdentifier

SpecIdentifier == InitIdentifier /\ [][NextIdentifier]_vars

\* the non-empty segments of a URL without protocol, www. and .git
Segments(url) ==
    LET skip == IF url # <<>> /\ url[1] \in {"https://", "http://"} THEN 1 ELSE 0
        www  == IF Len(url) > skip /\ url[skip + 1] = "www." THEN 1 ELSE 0
        git  == IF url # <<>> /\ url[Len(url)] = ".git" THEN 1 ELSE 0
    IN SelectSeq(SubSeq(url, skip + www + 1, Len(url) - git), LAMBDA t : t # "/")

\* C36: the identifier is owner-repo for a GitHub URL, org-project-repo for
\* an Azure DevOps URL, otherwise the last two segments joined by "-", and
\* "repo" when there are fewer than two segments.
C36_RepositoryIdentifier ==
    op.name = "getRepositoryIdentifier"
        => LET segs == Segments(op.url)
               n == Len(segs)
           IN op.result =
                IF n >= 3 /\ segs[1] = "github.com" THEN <<segs[2], "-", segs[3]>>
                ELSE IF n >= 5 /\ segs[1] = "dev.azure.com" /\ segs[4] = "_git"
                THEN <<segs[2], "-", segs[3], "-", segs[5]>>
                ELSE IF n >= 2 THEN <<segs[n - 1], "-", segs[n]>>
                ELSE <<"repo">>


-----------------------------------------------------------------------------
(* A catalog load beside sync passes.  loadPrompts reads the activation    *)
(* directory and the mirror at some moment between setting isLoading and   *)
(* clearing it; a pass may run in between.                                 *)

\* loadPrompts has set isLoading and reads the directories: the records are
\* in this.prompts, the load has not returned yet
LoadPromptsReads ==
    /\ isLoading
    /\ prompts = <<>>
    /\ prompts' = loadPrompts(promptsDir, mirror, repositoryConfigs, platform)
    /\ activePrompts' = activePrompts
            \cup loadedActivePaths(promptsDir, mirror, repositoryConfigs, platform)
    /\ UNCHANGED <<cfgVars, remote, fsVars, isLoading, runVars, op>>

\* loadPrompts returns what it has read (an empty catalog only if that is
\* what the directories hold)
LoadPromptsReturns ==
    /\ isLoading
    /\ prompts # <<>>
        \/ loadPrompts(promptsDir, mirror, repositoryConfigs, platform) = <<>>
    /\ isLoading' = FALSE
    /\ UNCHANGED <<cfgVars, remote, fsVars, prompts, activePrompts, runVars, op>>

\* the mirror holds x.prompt.md of the configured repositories, the catalog
\* is loaded, and the repositories have published y.md since
InitFresh ==
    /\ repositoryConfigs \in UiConfigs
    /\ \E p \in Platforms : platform = p.platform /\ symlinkPermitted = p.permitted
    /\ remote = [e \in ConfigEntries |->
                    IF \E i \in 1..Len(repositoryConfigs) : repositoryConfigs[i] = e
                    THEN <<TreeItem("prompts/", XName, 1), TreeItem("prompts/", YName, 1)>>
                    ELSE <<>>]
    /\ mirror = [u \in Urls |-> [f \in FileNames |->
                    IF f = XName /\ u \in ConfiguredUrls(repositoryConfigs)
                    THEN 1 ELSE 0]]
    /\ promptsDir = EmptyDir
    /\ prompts = loadPrompts(promptsDir, mirror, repositoryConfigs, platform)
    /\ activePrompts = {}
    /\ isLoading = FALSE
    /\ NoPassYet

FreshOutcomes == {Outcome("ok", 0), Outcome("treeFailed", 0)}

NextFresh ==
    \/ Refresh
    \/ LoadPromptsReads
    \/ LoadPromptsReturns
    \/ Running = {} /\ ManualSync
    \/ \E id \in Passes, outcome \in FreshOutcomes : SyncRepository(id, outcome)
    \/ \E id \in Passes : RecreateActivePromptSymlinks(id)
    \/ \E id \in Passes : CleanupOrphanedPrompts(id)
    \/ \E id \in Passes : FinishSync(id)

\* Every await of a load and of a pass returns; the user's commands (refresh,
\* sync now) need not happen.
FairFresh ==
    /\ WF_vars(LoadPromptsReads)
    /\ WF_vars(LoadPromptsReturns)
    /\ WF_vars(\E id \in Passes, outcome \in FreshOutcomes : SyncRepository(id, outcome))
    /\ WF_vars(\E id \in Passes : RecreateActivePromptSymlinks(id))
    /\ WF_vars(\E id \in Passes : CleanupOrphanedPrompts(id))
    /\ WF_vars(\E id \in Passes : FinishSync(id))

SpecFresh == InitFresh /\ [][NextFresh]_vars /\ FairFresh

\* the catalog is the one derived from the mirror and the activation
\* directory as they are
CatalogFresh ==
    /\ ~isLoading
    /\ prompts = loadPrompts(promptsDir, mirror, repositoryConfigs, platform)

\* C37: after a pass has returned, having called refresh(), the catalog
\* eventually is the one derived from the current mirror and activation
\* directory, also when a load was in progress at the time of the call.
C37_CatalogFreshness ==
    (op.name = "syncNow" /\ Running = {}) ~> CatalogFresh


-----------------------------------------------------------------------------
(* The sync schedule when a pass can end in the exception path of syncNow. *)

\* cleanupOrphanedPrompts rethrows (the activation directory cannot be
\* read): the catch of syncNow sets the error status and returns
SyncNowThrows(id) ==
    /\ pass[id].pc = "cleanup"
    /\ pass' = [pass EXCEPT ![id] = Idle]
    /\ lost' = IF pass[id].lost = lost THEN NoEntry ELSE lost
    /\ op' = [name |-> "syncNow", trigger |-> pass[id].trigger,
              results |-> pass[id].results,
              success |-> FALSE,
              status |-> "Error",
              itemsUpdated |-> 0,
              dirBefore |-> pass[id].dirBefore,
              follows |-> pass[id].follows,
              lost |-> pass[id].lost]
    /\ UNCHANGED <<cfgVars, remote, fsVars, catVars, timers>>

NextTimer ==
    \/ ManualSync
    \/ \E t \in {"startup", "periodic"} : TimerFires(t)
    \/ ConfigurationChanged
    \/ \E id \in Passes : SyncRepository(id, Outcome("ok", 0))
    \/ \E id \in Passes : RecreateActivePromptSymlinks(id)
    \/ \E id \in Passes : CleanupOrphanedPrompts(id)
    \/ \E id \in Passes : FinishSync(id)
    \/ \E id \in Passes : SyncNowThrows(id)
    \/ LoadPromptsEnd

SpecTimer == InitSched /\ [][NextTimer]_vars

\* C38: with sync enabled and a periodic frequency, when a syncNow returns
\* the periodic timer is pending.
C38_PeriodicTimerAfterSync ==
    [][(\E id \in Passes : pass[id].pc # "idle" /\ pass'[id].pc = "idle")
        => "periodic" \in timers']_vars


-----------------------------------------------------------------------------
(* The extension is deactivated at any moment.                             *)

\* SyncManager.dispose: the timer held in this.timer is cleared
Dispose ==
    /\ timers' = timers \ {"periodic"}
    /\ op' = [name |-> "dispose"]
    /\ UNCHANGED <<cfgVars, remote, fsVars, catVars, pass, lost>>

\* the commands and the configuration listener work until dispose; timeouts
\* and the awaits of a pass go on
NextDispose ==
    \/ op.name # "dispose" /\ ManualSync
    \/ op.name # "dispose" /\ ConfigurationChanged
    \/ op.name # "dispose" /\ Dispose
    \/ \E t \in {"startup", "periodic"} : TimerFires(t)
    \/ \E id \in Passes : SyncRepository(id, Outcome("ok", 0))
    \/ \E id \in Passes : RecreateActivePromptSymlinks(id)
    \/ \E id \in Passes : CleanupOrphanedPrompts(id)
    \/ \E id \in Passes : FinishSync(id)
    \/ LoadPromptsEnd

SpecDispose == InitSched /\ [][NextDispose]_vars

\* C39: once dispose() has been called and nothing has completed since, no
\* timer is pending and no pass starts.
C39_NothingAfterDispose ==
    [][op.name = "dispose"
        => /\ timers' = {}
           /\ \A id \in Passes : pass[id].pc = "idle" => pass'[id].pc = "idle"]_vars


-----------------------------------------------------------------------------
(* Passes started by the startup and the periodic timer, which can overlap, *)
(* whose repository fails in every way and whose cleanup may throw; every   *)
(* await returns.  The catalog load that a pass requests is left pending.   *)

RunOutcomes == Outcomes(<<TreeItem("prompts/", XName, 1)>>)

NextRun ==
    \/ \E t \in {"startup", "periodic"} : TimerFires(t)
    \/ \E id \in Passes, outcome \in RunOutcomes : SyncRepository(id, outcome)
    \/ \E id \in Passes : RecreateActivePromptSymlinks(id)
    \/ \E id \in Passes : CleanupOrphanedPrompts(id)
    \/ \E id \in Passes : SyncNowThrows(id)
    \/ \E id \in Passes : FinishSync(id)

\* every call a pass awaits returns or throws
FairRun ==
    \A id \in Passes :
        /\ WF_vars(\E outcome \in RunOutcomes : SyncRepository(id, outcome))
        /\ WF_vars(RecreateActivePromptSymlinks(id))
        /\ WF_vars(CleanupOrphanedPrompts(id) \/ SyncNowThrows(id))
        /\ WF_vars(FinishSync(id))

SpecRun == InitSched /\ [][NextRun]_vars /\ FairRun

=============================================================================
